---- MODULE Spec2Model ----
(***************************************************************************)
(* Schedula backend: the auth rules (signup, confirm-email, login with     *)
(* failed-attempt blocking, forgot/reset-password) and the activity rules  *)
(* (create, update, complete, soft-delete) as a state machine over the     *)
(* relational store the handlers read and write.                           *)
(*                                                                         *)
(* Time is in milliseconds, as Date is.  A user's id is its (unique) email.*)
(* An opaque random token is its serial number; the table stores its hash. *)
(*                                                                         *)
(* A handler runs from one awaited statement to the next in one step; the  *)
(* handlers of other requests, and the clock, run in between.              *)
(***************************************************************************)
EXTENDS Integers, Sequences, FiniteSets, TLC

\* ------------------------------------------------------------- bounds
MaxEmailTokens == 2
MaxRefreshTokens == 2
MaxActivities == 1
MaxInflight == 2
MaxPasswordLength == 8
MaxHits == 11
MaxRequests == 3
MaxClock == 4

\* ---------------------------------------------------- program constants
\* A nullable TIMESTAMP column that holds NULL.
NoDate == 0
\* A request field that is not a valid ISO datetime string.
BadDate == 0 - 1
\* A request field that is the empty string: no datetime, and falsy.
EmptyDate == 0 - 2
\* A nullable TEXT / enum column that holds NULL; a request field left out.
NULL == "null"

LIMITER_MAX == 10
LIMITER_WINDOW == 15 * 60 * 1000
BLOCK_THRESHOLD == 10
HISTORY_TAKE == 5
MIN_PASSWORD_LENGTH == 8
SALT_ROUNDS == 12
CONFIRM_TTL == 24 * 60 * 60 * 1000
RESET_TTL == 60 * 60 * 1000
REFRESH_TTL == 7 * 24 * 60 * 60 * 1000
NODE_ENV == "development"
\* config.jwt.refreshExpiry, in seconds.
JWT_REFRESH_EXPIRY == 7 * 24 * 60 * 60

CompletionOutcome == {"COMPLETED_OK", "NO_SHOW", "DID_NOT_ANSWER", "CANCELLED", "FAILED"}
ActivityType ==
  {"DOCTOR_APPOINTMENT", "CALL", "MEETING", "GYM", "GROCERY_RUN", "STUDY_SESSION",
   "PAY_BILLS", "CAR_MAINTENANCE", "DENTIST_APPOINTMENT", "HAIRCUT", "WORKOUT",
   "LUNCH_MEETING", "TEAM_STANDUP", "CLIENT_CALL", "PERSONAL_TIME", "OTHER"}

\* --------------------------------------------------------- error bodies
E_RATE == "Too many requests from this IP, please try again later"
E_INVALID_CREDENTIALS == "Invalid credentials"
E_BLOCKED == "Account is blocked due to too many failed login attempts"
E_NOW_BLOCKED == "Account blocked due to too many failed login attempts"
E_UNCONFIRMED == "Please confirm your email before logging in"
E_INTERNAL == "Internal server error"
E_EMAIL_TAKEN == "Email already registered"
E_TOKEN_INVALID == "Invalid or expired token"
E_TOKEN_USED == "Token already used"
E_TOKEN_EXPIRED == "Token expired"
E_TOKEN_TYPE == "Invalid token type"
E_REUSED == "Cannot reuse any of your last 5 passwords"
E_ZOD == "ZodError"
E_REFRESH_INVALID == "Invalid refresh token"
E_REFRESH_EXPIRED == "Invalid or expired refresh token"
E_PW_LENGTH == "Password must be at least 8 characters long"
E_PW_LETTER == "Password must include at least one letter"
E_PW_NUMBER == "Password must include at least one number"
E_PW_SYMBOL == "Password must include at least one symbol"
E_NOT_FOUND == "Activity not found"
E_SCHEDULED_FUTURE == "Scheduled activities must be in the future"
E_RECORDED_PAST == "Recorded activities must be in the past"
E_EITHER == "Activity must be either scheduled or recorded"
E_SCHEDULED_DATE_FUTURE == "Scheduled date must be in the future"
E_ONLY_SCHEDULED == "Only scheduled activities can be completed"
E_COMPLETION_PAST == "Completion date must be in the past"
OK == "ok"
M_RESET_SENT == "If the email exists, a reset link has been sent."

\* ------------------------------------------------------- request inputs
Emails == {"a@x.com", "b@x.com"}
Clients == {"ip1", "ip2"}
DigitChars == <<"1", "2", "3", "4", "5", "6", "7">>
Pw(i) == <<"P", "a", "s", "s", "w", "d", "!">> \o <<DigitChars[i]>>
WeakPw == <<"a", "b", "c", "1", "!">>
NoSymbolPw == <<"P", "a", "s", "s", "w", "o", "r", "d", "1">>
EmptyPw == << >>
\* Refresh-token strings a client may present: the empty string, and a token some
\* other party signed.
EmptyToken == [userId |-> NULL, iat |-> 0, secret |-> NULL]
ForgedToken == [userId |-> "a@x.com", iat |-> 0, secret |-> "otherSecret"]

\* ------------------------------------------------- credential utilities
Letters ==
  {"a", "b", "c", "d", "e", "f", "g", "h", "i", "j", "k", "l", "m", "n", "o", "p", "q",
   "r", "s", "t", "u", "v", "w", "x", "y", "z", "A", "B", "C", "D", "E", "F", "G", "H",
   "I", "J", "K", "L", "M", "N", "O", "P", "Q", "R", "S", "T", "U", "V", "W", "X", "Y",
   "Z"}
Digits == {"0", "1", "2", "3", "4", "5", "6", "7", "8", "9"}
Symbols ==
  {"!", "@", "#", "$", "%", "^", "&", "*", "(", ")", "_", "+", "-", "=", "[", "]", "{",
   "}", ";", "'", ":", "\"", "\\", "|", ",", ".", "<", ">", "/", "?"}

hasLetter(p) == \E i \in 1..Len(p) : p[i] \in Letters
hasNumber(p) == \E i \in 1..Len(p) : p[i] \in Digits
hasSymbol(p) == \E i \in 1..Len(p) : p[i] \in Symbols

\* The three character tests made before the length test.
validatePasswordStrength_LengthLast(p) ==
  IF ~hasLetter(p) THEN [valid |-> FALSE, error |-> E_PW_LETTER]
  ELSE IF ~hasNumber(p) THEN [valid |-> FALSE, error |-> E_PW_NUMBER]
  ELSE IF ~hasSymbol(p) THEN [valid |-> FALSE, error |-> E_PW_SYMBOL]
  ELSE IF Len(p) < MIN_PASSWORD_LENGTH THEN [valid |-> FALSE, error |-> E_PW_LENGTH]
  ELSE [valid |-> TRUE, error |-> OK]

validatePasswordStrength(p) ==
  IF Len(p) < MIN_PASSWORD_LENGTH THEN [valid |-> FALSE, error |-> E_PW_LENGTH]
  ELSE IF ~hasLetter(p) THEN [valid |-> FALSE, error |-> E_PW_LETTER]
  ELSE IF ~hasNumber(p) THEN [valid |-> FALSE, error |-> E_PW_NUMBER]
  ELSE IF ~hasSymbol(p) THEN [valid |-> FALSE, error |-> E_PW_SYMBOL]
  ELSE [valid |-> TRUE, error |-> OK]

\* zod: z.string().min(8).refine(letter && number && symbol)
passwordSchema(p) ==
  /\ Len(p) >= MIN_PASSWORD_LENGTH
  /\ hasLetter(p) /\ hasNumber(p) /\ hasSymbol(p)

\* bcrypt: a one-way digest of the password; compare re-derives it.
hashPassword(p) == [alg |-> "bcrypt", rounds |-> SALT_ROUNDS, of |-> p]
comparePassword(p, h) == h = hashPassword(p)

\* sha256 of the opaque token.
hashToken(t) == [alg |-> "sha256", of |-> t]

\* jwt.sign(payload, refreshSecret, expiresIn): the payload and the issue time in
\* whole seconds determine the signed string.
generateRefreshToken(userId, at) ==
  [userId |-> userId, iat |-> at \div 1000, secret |-> "refreshSecret"]

\* jwt.sign(payload, accessSecret, { expiresIn }): as the refresh token, under the
\* other secret.
generateAccessToken(userId, at) ==
  [userId |-> userId, iat |-> at \div 1000, secret |-> "accessSecret"]

\* jwt.verify(token, refreshSecret): the signature is the service's and the time in
\* whole seconds is before exp = iat + expiresIn.
verifyRefreshToken(token, at) ==
  /\ token.secret = "refreshSecret"
  /\ at \div 1000 < token.iat + JWT_REFRESH_EXPIRY


\* ---------------------------------------------------------------- state
VARIABLES
  users,            \* User table: registered email -> row
  passwordHistory,  \* PasswordHistory rows per user, in the order of their creation
  emailTokens,      \* EmailToken table, in creation order
  refreshTokens,    \* RefreshToken table, in creation order
  activities,       \* Activity table, in creation order (id = position)
  now,              \* the clock, ms
  hits,             \* authLimiter: requests counted per client in its window
  resetTime,        \* authLimiter: when the client's window ends, NoDate without one
  inflight,         \* requests between two awaited statements of their handler
  resp              \* the last request answered and the response it got

vars ==
  <<users, passwordHistory, emailTokens, refreshTokens, activities, now, hits,
    resetTime, inflight, resp>>

\* A response: the request (op, key, arg), the status code, the body (error, extra),
\* and for the record where the handler stood when it answered: the await it answered
\* from (pc; "begin" when it answered before its first), the clock it read when it came
\* to wait there (at) and the row it had read (read).
NoResp ==
  [op |-> "none", key |-> NULL, arg |-> NULL, code |-> 0, error |-> OK, extra |-> 0,
   pc |-> "none", at |-> 0, read |-> << >>]
Response(op, key, arg, code, error, extra) ==
  [op |-> op, key |-> key, arg |-> arg, code |-> code, error |-> error, extra |-> extra,
   pc |-> "begin", at |-> now, read |-> << >>]

\* An account that an administrator has put in SUSPENDED (no handler writes that
\* status): the row, with the password it was created with.
SuspendedUser ==
  [status |-> "SUSPENDED", failedLoginAttempts |-> 0,
   passwordHash |-> hashPassword(Pw(1)), lastLoginAt |-> NoDate]
SuspendedEmail == "a@x.com"

\* passwordHistory.create({ data: { userId, passwordHash } }): createdAt is the
\* column's default, the time at which the row is written.
NewPasswordHistory(passwordHash, createdAt) ==
  [passwordHash |-> passwordHash, createdAt |-> createdAt]

\* The store as the service finds it: empty, or holding one suspended account.
Init ==
  /\ \E seeded \in SUBSET {SuspendedEmail} :
       /\ users = [e \in seeded |-> SuspendedUser]
       /\ passwordHistory = [e \in seeded |-> <<NewPasswordHistory(hashPassword(Pw(1)), 1)>>]
  /\ emailTokens = << >>
  /\ refreshTokens = << >>
  /\ activities = << >>
  /\ now = 3
  /\ hits = [c \in Clients |-> 0]
  /\ resetTime = [c \in Clients |-> NoDate]
  /\ inflight = << >>
  /\ resp = NoResp

\* ---------------------------------------------------------- authLimiter
\* express-rate-limit: count the request, refuse it when the count exceeds max.  The
\* first request of a window sets its end, windowMs later.
LimiterHit(c) == [hits EXCEPT ![c] = @ + 1]
LimiterReset(c) ==
  [resetTime EXCEPT ![c] = IF hits[c] = 0 THEN now + LIMITER_WINDOW ELSE @]
Admitted(c) == hits[c] + 1 <= LIMITER_MAX

\* The counts and the window ends once the clock shows t: a window whose end has come
\* is over and its count starts again.
HitsAt(t) == [c \in Clients |-> IF resetTime[c] <= t THEN 0 ELSE hits[c]]
ResetTimeAt(t) == [c \in Clients |-> IF resetTime[c] <= t THEN NoDate ELSE resetTime[c]]

\* ------------------------------------------------------------ the clock
\* The instants at which a stored expiry is tested: the expiry, and just past it.
Deadlines ==
  UNION {{emailTokens[i].expiresAt, emailTokens[i].expiresAt + 1} :
           i \in 1..Len(emailTokens)}
    \cup UNION {{refreshTokens[i].expiresAt, refreshTokens[i].expiresAt + 1} :
                  i \in 1..Len(refreshTokens)}

\* The next millisecond, up to MaxClock.
Ticks == IF now < MaxClock THEN {now + 1} ELSE {}

\* Time passes until the clock shows d.
Elapse(d) ==
  /\ d > now
  /\ now' = d
  /\ hits' = HitsAt(d)
  /\ resetTime' = ResetTimeAt(d)
  /\ resp' = NoResp
  /\ UNCHANGED <<users, passwordHistory, emailTokens, refreshTokens, activities,
                 inflight>>

\* ------------------------------------------------- requests in flight
\* A handler awaits each statement it sends to the database, each run of bcrypt calls
\* and the mail, and other requests run meanwhile: a request in flight waits at the
\* await pc of its handler, with the body it came with (key, arg), what its handler
\* has read (row) and the clock at which it came to wait there.  What the handler
\* computes before an await (new Date(), Date.now(), a signed token) is of that time.
Pending(op, pc, key, arg, row) ==
  [op |-> op, pc |-> pc, key |-> key, arg |-> arg, row |-> row, time |-> now]

\* The request k comes to wait at its next await.
Move(k, pc) == [inflight EXCEPT ![k].pc = pc, ![k].time = now]
MoveWith(k, pc, row) == [inflight EXCEPT ![k].pc = pc, ![k].time = now, ![k].row = row]

WithoutPending(k) == [j \in 1..(Len(inflight) - 1) |->
                        IF j < k THEN inflight[j] ELSE inflight[j + 1]]

At(k, op, pc) ==
  /\ k \in 1..Len(inflight)
  /\ inflight[k].op = op
  /\ inflight[k].pc = pc

\* The response r given to the request k, which leaves.
Answer(k, r) ==
  [r EXCEPT !.pc = inflight[k].pc, !.at = inflight[k].time, !.read = inflight[k].row]

\* ----------------------------------------------------- POST /auth/login
LoginBlockedStatus(failed, status) ==
  IF failed + 1 >= BLOCK_THRESHOLD THEN "BLOCKED" ELSE status

\* The count taken from the row as read before the update.
RemainingAttempts_BeforeUpdate(failed) == BLOCK_THRESHOLD - (failed - 1)

\* remainingAttempts: 10 - updatedUser.failedLoginAttempts
RemainingAttempts(failed) == BLOCK_THRESHOLD - failed

\* The early returns without the test for a blocked account.
LoginEarlyReturn_BlockedPasses(e, p) ==
  IF e \notin DOMAIN users THEN Response("login", e, p, 401, E_INVALID_CREDENTIALS, 0)
  ELSE IF users[e].status = "WAITING_EMAIL_CONFIRMATION"
  THEN Response("login", e, p, 403, E_UNCONFIRMED, 0)
  ELSE NoResp

\* The answer given on the row findUnique returns, before the password is looked at;
\* NoResp when there is none.
LoginEarlyReturn(e, p) ==
  IF e \notin DOMAIN users THEN Response("login", e, p, 401, E_INVALID_CREDENTIALS, 0)
  ELSE IF users[e].status = "BLOCKED" THEN Response("login", e, p, 403, E_BLOCKED, 0)
  ELSE IF users[e].status = "WAITING_EMAIL_CONFIRMATION"
  THEN Response("login", e, p, 403, E_UNCONFIRMED, 0)
  ELSE NoResp

\* authLimiter and loginSchema.parse; user.findUnique is sent.
LoginBegin(c, e, p) ==
  /\ hits' = LimiterHit(c)
  /\ resetTime' = LimiterReset(c)
  /\ IF ~Admitted(c)
     THEN /\ resp' = Response("login", e, p, 429, E_RATE, 0)
          /\ UNCHANGED inflight
     ELSE IF p = EmptyPw
     THEN /\ resp' = Response("login", e, p, 400, E_ZOD, 0)
          /\ UNCHANGED inflight
     ELSE /\ inflight' = Append(inflight, Pending("login", "find", e, p, << >>))
          /\ resp' = NoResp
  /\ UNCHANGED <<users, passwordHistory, emailTokens, refreshTokens, activities, now>>

\* The row user.findUnique returns and the early returns; comparePassword is called.
LoginFind(k) ==
  /\ At(k, "login", "find")
  /\ LET e == inflight[k].key
         p == inflight[k].arg
     IN  IF LoginEarlyReturn(e, p).code # 0
         THEN /\ resp' = Answer(k, LoginEarlyReturn(e, p))
              /\ inflight' = WithoutPending(k)
         ELSE /\ inflight' = MoveWith(k, "compare", users[e])
              /\ resp' = NoResp
  /\ UNCHANGED <<users, passwordHistory, emailTokens, refreshTokens, activities, now, hits,
                 resetTime>>

\* await comparePassword; the update of either branch is built, with new Date().
LoginCompare(k) ==
  /\ At(k, "login", "compare")
  /\ inflight' = Move(k, "update")
  /\ resp' = NoResp
  /\ UNCHANGED <<users, passwordHistory, emailTokens, refreshTokens, activities, now, hits,
                 resetTime>>

\* user.update: the row is written from the row findUnique returned, whatever the
\* table holds by then.  After the update of a correct login the tokens are signed and
\* the refreshToken.create is built.
LoginUpdate(k) ==
  /\ At(k, "login", "update")
  /\ LET e == inflight[k].key
         p == inflight[k].arg
         user == inflight[k].row
         failed == user.failedLoginAttempts + 1
         status == LoginBlockedStatus(user.failedLoginAttempts, user.status)
     IN  IF ~comparePassword(p, user.passwordHash)
         THEN /\ users' = [users EXCEPT ![e].failedLoginAttempts = failed,
                                        ![e].status = status]
              /\ resp' = Answer(k, IF status = "BLOCKED"
                                   THEN Response("login", e, p, 403, E_NOW_BLOCKED, 0)
                                   ELSE Response("login", e, p, 401, E_INVALID_CREDENTIALS,
                                                 RemainingAttempts(failed)))
              /\ inflight' = WithoutPending(k)
         ELSE /\ users' = [users EXCEPT ![e].failedLoginAttempts = 0,
                                        ![e].lastLoginAt = inflight[k].time]
              /\ inflight' = Move(k, "create")
              /\ resp' = NoResp
  /\ UNCHANGED <<passwordHistory, emailTokens, refreshTokens, activities, now, hits,
                 resetTime>>

\* refreshToken.create and the answer.
LoginCreate(k) ==
  /\ At(k, "login", "create")
  /\ LET e == inflight[k].key
         p == inflight[k].arg
         signed == inflight[k].time
         token == generateRefreshToken(e, signed)
         taken == \E i \in 1..Len(refreshTokens) :
                    refreshTokens[i].tokenHash = hashToken(token)
     IN  IF taken
         THEN \* RefreshToken_tokenHash_key: the create throws
              /\ resp' = Answer(k, Response("login", e, p, 500, E_INTERNAL, 0))
              /\ UNCHANGED refreshTokens
         ELSE /\ refreshTokens' =
                   Append(refreshTokens,
                          [userId |-> e, tokenHash |-> hashToken(token),
                           expiresAt |-> signed + REFRESH_TTL, revokedAt |-> NoDate])
              /\ resp' = Answer(k, Response("login", e, p, 200, OK,
                                            [accessToken |-> generateAccessToken(e, signed),
                                             refreshToken |-> token]))
  /\ inflight' = WithoutPending(k)
  /\ UNCHANGED <<users, passwordHistory, emailTokens, activities, now, hits, resetTime>>

\* ---------------------------------------------------- POST /auth/signup
\* The row created already confirmed.
NewUser_Confirmed(p) ==
  [status |-> "ACTIVE", failedLoginAttempts |-> 0,
   passwordHash |-> hashPassword(p), lastLoginAt |-> NoDate]

NewUser(p) ==
  [status |-> "WAITING_EMAIL_CONFIRMATION", failedLoginAttempts |-> 0,
   passwordHash |-> hashPassword(p), lastLoginAt |-> NoDate]

\* generateRandomToken(): a value no earlier token has.
generateRandomToken == Len(emailTokens) + 1

NewEmailToken(userId, type, expiresAt) ==
  [userId |-> userId, type |-> type, tokenHash |-> hashToken(generateRandomToken),
   expiresAt |-> expiresAt, usedAt |-> NoDate]

\* The answer given on what user.findUnique returns, before anything is written;
\* NoResp when there is none.
SignupEarlyReturn(e, p) ==
  IF e \in DOMAIN users THEN Response("signup", e, p, 400, E_EMAIL_TAKEN, 0)
  ELSE IF ~validatePasswordStrength(p).valid
  THEN Response("signup", e, p, 400, validatePasswordStrength(p).error, 0)
  ELSE NoResp

\* authLimiter and signupSchema.parse; user.findUnique is sent.
SignupBegin(c, e, p) ==
  /\ hits' = LimiterHit(c)
  /\ resetTime' = LimiterReset(c)
  /\ IF ~Admitted(c)
     THEN /\ resp' = Response("signup", e, p, 429, E_RATE, 0)
          /\ UNCHANGED inflight
     ELSE IF ~passwordSchema(p)
     THEN /\ resp' = Response("signup", e, p, 400, E_ZOD, 0)
          /\ UNCHANGED inflight
     ELSE /\ inflight' = Append(inflight, Pending("signup", "find", e, p, << >>))
          /\ resp' = NoResp
  /\ UNCHANGED <<users, passwordHistory, emailTokens, refreshTokens, activities, now>>

\* What user.findUnique returns and validatePasswordStrength; hashPassword is called.
SignupFind(k) ==
  /\ At(k, "signup", "find")
  /\ LET e == inflight[k].key
         p == inflight[k].arg
     IN  IF SignupEarlyReturn(e, p).code # 0
         THEN /\ resp' = Answer(k, SignupEarlyReturn(e, p))
              /\ inflight' = WithoutPending(k)
         ELSE /\ inflight' = Move(k, "hash")
              /\ resp' = NoResp
  /\ UNCHANGED <<users, passwordHistory, emailTokens, refreshTokens, activities, now, hits,
                 resetTime>>

\* await hashPassword
SignupHash(k) ==
  /\ At(k, "signup", "hash")
  /\ inflight' = Move(k, "user")
  /\ resp' = NoResp
  /\ UNCHANGED <<users, passwordHistory, emailTokens, refreshTokens, activities, now, hits,
                 resetTime>>

\* user.create; User_email_key: the create throws when another signup has created the
\* email since the findUnique.
SignupCreateUser(k) ==
  /\ At(k, "signup", "user")
  /\ LET e == inflight[k].key
         p == inflight[k].arg
     IN  IF e \in DOMAIN users
         THEN /\ resp' = Answer(k, Response("signup", e, p, 500, E_INTERNAL, 0))
              /\ inflight' = WithoutPending(k)
              /\ UNCHANGED <<users, passwordHistory>>
         ELSE /\ users' = [x \in DOMAIN users \cup {e} |->
                             IF x = e THEN NewUser(p) ELSE users[x]]
              /\ passwordHistory' = [x \in DOMAIN users \cup {e} |->
                                       IF x = e THEN << >> ELSE passwordHistory[x]]
              /\ inflight' = Move(k, "history")
              /\ resp' = NoResp
  /\ UNCHANGED <<emailTokens, refreshTokens, activities, now, hits, resetTime>>

\* passwordHistory.create; then the token is generated and the emailToken.create is
\* built, with Date.now() + 24 h.
SignupCreateHistory(k) ==
  /\ At(k, "signup", "history")
  /\ passwordHistory' =
       [passwordHistory EXCEPT ![inflight[k].key] =
          Append(@, NewPasswordHistory(hashPassword(inflight[k].arg), now))]
  /\ inflight' = Move(k, "token")
  /\ resp' = NoResp
  /\ UNCHANGED <<users, emailTokens, refreshTokens, activities, now, hits, resetTime>>

\* emailToken.create
SignupCreateToken(k) ==
  /\ At(k, "signup", "token")
  /\ emailTokens' =
       Append(emailTokens,
              NewEmailToken(inflight[k].key, "CONFIRM_EMAIL", inflight[k].time + CONFIRM_TTL))
  /\ inflight' = MoveWith(k, "mail", inflight[k].time + CONFIRM_TTL)
  /\ resp' = NoResp
  /\ UNCHANGED <<users, passwordHistory, refreshTokens, activities, now, hits, resetTime>>

\* await emailService.sendEmailConfirmation, which never throws, and the answer.
SignupMail(k) ==
  /\ At(k, "signup", "mail")
  /\ resp' = Answer(k, Response("signup", inflight[k].key, inflight[k].arg, 201, OK, 0))
  /\ inflight' = WithoutPending(k)
  /\ UNCHANGED <<users, passwordHistory, emailTokens, refreshTokens, activities, now, hits,
                 resetTime>>

\* ------------------------------------------- email tokens: the checks
\* prisma.emailToken.findUnique({ where: { tokenHash } }): the row's position, 0 if none.
FindEmailToken(tok) ==
  IF \E i \in 1..Len(emailTokens) : emailTokens[i].tokenHash = hashToken(tok)
  THEN CHOOSE i \in 1..Len(emailTokens) : emailTokens[i].tokenHash = hashToken(tok)
  ELSE 0

TokenExpired(row, at) == row.expiresAt < at

\* The checks confirm-email and reset-password make on the row they found.
TokenCheck(row, type, at) ==
  IF row.usedAt # NoDate THEN E_TOKEN_USED
  ELSE IF TokenExpired(row, at) THEN E_TOKEN_EXPIRED
  ELSE IF row.type # type THEN E_TOKEN_TYPE
  ELSE OK

\* The type of token an operation consumes.
ConsumedType(op) == IF op = "confirm-email" THEN "CONFIRM_EMAIL" ELSE "RESET_PASSWORD"
ConsumingOps == {"confirm-email", "reset-password"}

\* --------------------------------------------- POST /auth/confirm-email
\* The read and the checks: the error to answer with, or OK.
ConfirmEmailCheck(tok) ==
  IF FindEmailToken(tok) = 0 THEN E_TOKEN_INVALID
  ELSE TokenCheck(emailTokens[FindEmailToken(tok)], "CONFIRM_EMAIL", now)

\* The token marked used without the status update it authorizes.
ConfirmEmailTransaction_TokenOnly(i, at) ==
  /\ UNCHANGED users
  /\ emailTokens' = [emailTokens EXCEPT ![i].usedAt = at]

\* prisma.$transaction([user.update, emailToken.update]): one commit, of the rows as
\* they were built, usedAt: new Date() included.
ConfirmEmailTransaction(i, at) ==
  /\ users' = [users EXCEPT ![emailTokens[i].userId].status = "ACTIVE"]
  /\ emailTokens' = [emailTokens EXCEPT ![i].usedAt = at]

\* What emailToken.findUnique returns and the checks on the row; the transaction is
\* built.
ConfirmEmailBegin(tok) ==
  /\ IF ConfirmEmailCheck(tok) # OK
     THEN /\ resp' = Response("confirm-email", tok, NULL, 400, ConfirmEmailCheck(tok), 0)
          /\ UNCHANGED inflight
     ELSE /\ inflight' = Append(inflight, Pending("confirm-email", "commit", tok, NULL,
                                                  FindEmailToken(tok)))
          /\ resp' = NoResp
  /\ UNCHANGED <<users, passwordHistory, emailTokens, refreshTokens, activities, now, hits,
                 resetTime>>

\* The transaction and the answer.
ConfirmEmailCommit(k) ==
  /\ At(k, "confirm-email", "commit")
  /\ ConfirmEmailTransaction(inflight[k].row, inflight[k].time)
  /\ resp' = Answer(k, Response("confirm-email", inflight[k].key, NULL, 200, OK, 0))
  /\ inflight' = WithoutPending(k)
  /\ UNCHANGED <<passwordHistory, refreshTokens, activities, now, hits, resetTime>>

\* -------------------------------------------- POST /auth/forgot-password
\* authLimiter and forgotPasswordSchema.parse; user.findUnique is sent.
ForgotPassword(c, e) ==
  /\ hits' = LimiterHit(c)
  /\ resetTime' = LimiterReset(c)
  /\ IF ~Admitted(c)
     THEN /\ resp' = Response("forgot-password", e, NULL, 429, E_RATE, 0)
          /\ UNCHANGED inflight
     ELSE /\ inflight' = Append(inflight, Pending("forgot-password", "find", e, NULL, << >>))
          /\ resp' = NoResp
  /\ UNCHANGED <<users, passwordHistory, emailTokens, refreshTokens, activities, now>>

\* An unknown email told apart by the answer.
ForgotPasswordHandler_Reveals(k) ==
  IF inflight[k].key \notin DOMAIN users
  THEN /\ resp' = Answer(k, Response("forgot-password", inflight[k].key, NULL, 404,
                                     E_INVALID_CREDENTIALS, 0))
       /\ inflight' = WithoutPending(k)
  ELSE /\ inflight' = Move(k, "create")
       /\ resp' = NoResp

\* What user.findUnique returns: the acknowledgement when there is no such user;
\* otherwise the token is generated and the emailToken.create is built, with
\* Date.now() + 1 h.
ForgotPasswordHandler(k) ==
  IF inflight[k].key \notin DOMAIN users
  THEN /\ resp' = Answer(k, Response("forgot-password", inflight[k].key, NULL, 200, OK,
                                     M_RESET_SENT))
       /\ inflight' = WithoutPending(k)
  ELSE /\ inflight' = Move(k, "create")
       /\ resp' = NoResp

ForgotPasswordFind(k) ==
  /\ At(k, "forgot-password", "find")
  /\ ForgotPasswordHandler(k)
  /\ UNCHANGED <<users, passwordHistory, emailTokens, refreshTokens, activities, now, hits,
                 resetTime>>

\* emailToken.create
ForgotPasswordCreate(k) ==
  /\ At(k, "forgot-password", "create")
  /\ emailTokens' =
       Append(emailTokens,
              NewEmailToken(inflight[k].key, "RESET_PASSWORD", inflight[k].time + RESET_TTL))
  /\ inflight' = MoveWith(k, "mail", inflight[k].time + RESET_TTL)
  /\ resp' = NoResp
  /\ UNCHANGED <<users, passwordHistory, refreshTokens, activities, now, hits, resetTime>>

\* await emailService.sendPasswordReset, which never throws, and the answer.
ForgotPasswordMail(k) ==
  /\ At(k, "forgot-password", "mail")
  /\ resp' = Answer(k, Response("forgot-password", inflight[k].key, NULL, 200, OK,
                                M_RESET_SENT))
  /\ inflight' = WithoutPending(k)
  /\ UNCHANGED <<users, passwordHistory, emailTokens, refreshTokens, activities, now, hits,
                 resetTime>>

\* --------------------------------------------- POST /auth/reset-password
\* findMany({ where: { userId }, orderBy: { createdAt: 'desc' }, take: 5 }) on the rows
\* h of a user: every result the database may give.  The rows come newest first and
\* no row left out is newer than one returned; the query names no second key, so the
\* order of rows equal on createdAt, and which of them fall within the 5, is the
\* database's choice.
RecentPasswords(h) ==
  LET n == IF Len(h) <= HISTORY_TAKE THEN Len(h) ELSE HISTORY_TAKE
      picks == {t \in [1..n -> 1..Len(h)] :
                  /\ \A a, b \in 1..n :
                       a < b => /\ t[a] # t[b]
                                /\ h[t[a]].createdAt >= h[t[b]].createdAt
                  /\ \A r \in 1..Len(h) :
                       (\A a \in 1..n : t[a] # r) => h[r].createdAt <= h[t[n]].createdAt}
  IN  {[j \in 1..n |-> h[t[j]]] : t \in picks}

\* The token read and the checks before the history is read: the error to answer
\* with, or OK.
ResetPasswordCheck(tok, p) ==
  IF ~passwordSchema(p) THEN E_ZOD
  ELSE IF FindEmailToken(tok) = 0 THEN E_TOKEN_INVALID
  ELSE LET row == emailTokens[FindEmailToken(tok)]
       IN  IF TokenCheck(row, "RESET_PASSWORD", now) # OK
           THEN TokenCheck(row, "RESET_PASSWORD", now)
           ELSE IF ~validatePasswordStrength(p).valid
           THEN validatePasswordStrength(p).error
           ELSE OK

\* prisma.$transaction([user.update, passwordHistory.create, emailToken.update]): one
\* commit, of the rows as they were built, usedAt: new Date() included.
ResetPasswordTransaction(i, p, at) ==
  LET userId == emailTokens[i].userId
  IN  /\ users' = [users EXCEPT ![userId].passwordHash = hashPassword(p)]
      /\ passwordHistory' =
           [passwordHistory EXCEPT ![userId] =
              Append(@, NewPasswordHistory(hashPassword(p), now))]
      /\ emailTokens' = [emailTokens EXCEPT ![i].usedAt = at]

\* resetPasswordSchema.parse, what emailToken.findUnique returns, the checks on the row
\* and validatePasswordStrength; passwordHistory.findMany is sent.
ResetPasswordBegin(tok, p) ==
  /\ IF ResetPasswordCheck(tok, p) # OK
     THEN /\ resp' = Response("reset-password", tok, p, 400, ResetPasswordCheck(tok, p), 0)
          /\ UNCHANGED inflight
     ELSE /\ inflight' =
               Append(inflight, Pending("reset-password", "history", tok, p,
                                        [id |-> FindEmailToken(tok), history |-> << >>,
                                         compared |-> 0]))
          /\ resp' = NoResp
  /\ UNCHANGED <<users, passwordHistory, emailTokens, refreshTokens, activities, now, hits,
                 resetTime>>

\* passwordHistory.findMany: the rows it returns; comparePassword is called on the
\* first, or hashPassword when there is none.
ResetPasswordHistory(k) ==
  /\ At(k, "reset-password", "history")
  /\ \E rows \in RecentPasswords(passwordHistory[emailTokens[inflight[k].row.id].userId]) :
       inflight' =
         MoveWith(k, IF rows = << >> THEN "hash" ELSE "compare",
                  [id |-> inflight[k].row.id, history |-> rows, compared |-> 0])
  /\ resp' = NoResp
  /\ UNCHANGED <<users, passwordHistory, emailTokens, refreshTokens, activities, now, hits,
                 resetTime>>

\* await comparePassword on one row of those found: the answer when it is the new
\* password; otherwise comparePassword is called on the next row, or hashPassword
\* after the last.
ResetPasswordCompare(k) ==
  /\ At(k, "reset-password", "compare")
  /\ LET row == inflight[k].row
         j == row.compared + 1
     IN  IF comparePassword(inflight[k].arg, row.history[j].passwordHash)
         THEN /\ resp' = Answer(k, Response("reset-password", inflight[k].key,
                                            inflight[k].arg, 400, E_REUSED, 0))
              /\ inflight' = WithoutPending(k)
         ELSE /\ inflight' =
                   MoveWith(k, IF j < Len(row.history) THEN "compare" ELSE "hash",
                            [row EXCEPT !.compared = j])
              /\ resp' = NoResp
  /\ UNCHANGED <<users, passwordHistory, emailTokens, refreshTokens, activities, now, hits,
                 resetTime>>

\* await hashPassword; the transaction is built, with usedAt: new Date().
ResetPasswordHash(k) ==
  /\ At(k, "reset-password", "hash")
  /\ inflight' = Move(k, "commit")
  /\ resp' = NoResp
  /\ UNCHANGED <<users, passwordHistory, emailTokens, refreshTokens, activities, now, hits,
                 resetTime>>

\* The transaction and the answer.
ResetPasswordCommit(k) ==
  /\ At(k, "reset-password", "commit")
  /\ ResetPasswordTransaction(inflight[k].row.id, inflight[k].arg, inflight[k].time)
  /\ resp' = Answer(k, Response("reset-password", inflight[k].key, inflight[k].arg, 200,
                                OK, 0))
  /\ inflight' = WithoutPending(k)
  /\ UNCHANGED <<refreshTokens, activities, now, hits, resetTime>>

\* --------------------------------------------------- POST /auth/refresh
\* prisma.refreshToken.findUnique({ where: { tokenHash } }): the row's position, 0 if none.
FindRefreshToken(token) ==
  IF \E i \in 1..Len(refreshTokens) : refreshTokens[i].tokenHash = hashToken(token)
  THEN CHOOSE i \in 1..Len(refreshTokens) : refreshTokens[i].tokenHash = hashToken(token)
  ELSE 0

refreshTokenSchema(token) == token # EmptyToken

\* !storedToken || storedToken.revokedAt || storedToken.expiresAt < new Date()
StoredTokenRejected(i) ==
  i = 0 \/ refreshTokens[i].revokedAt # NoDate \/ refreshTokens[i].expiresAt < now

\* refreshTokenSchema.parse and verifyRefreshToken; refreshToken.findUnique is sent.
RefreshBegin(token) ==
  /\ IF ~refreshTokenSchema(token)
     THEN /\ resp' = Response("refresh", token, NULL, 400, E_ZOD, 0)
          /\ UNCHANGED inflight
     ELSE IF ~verifyRefreshToken(token, now)
     THEN /\ resp' = Response("refresh", token, NULL, 401, E_REFRESH_INVALID, 0)
          /\ UNCHANGED inflight
     ELSE /\ inflight' = Append(inflight, Pending("refresh", "find", token, NULL, << >>))
          /\ resp' = NoResp
  /\ UNCHANGED <<users, passwordHistory, emailTokens, refreshTokens, activities, now, hits,
                 resetTime>>

\* The row refreshToken.findUnique returns, the test on it and the answer, with the
\* access token signed then.
RefreshFind(k) ==
  /\ At(k, "refresh", "find")
  /\ LET token == inflight[k].key
     IN  resp' =
           Answer(k, IF StoredTokenRejected(FindRefreshToken(token))
                     THEN Response("refresh", token, NULL, 401, E_REFRESH_EXPIRED, 0)
                     ELSE Response("refresh", token, NULL, 200, OK,
                                   [accessToken |-> generateAccessToken(token.userId, now)]))
  /\ inflight' = WithoutPending(k)
  /\ UNCHANGED <<users, passwordHistory, emailTokens, refreshTokens, activities, now, hits,
                 resetTime>>

\* ---------------------------------------------------- POST /auth/logout
\* Every row of the token's user revoked, not only the row of the token.
RevokeRefreshToken_WholeUser(token, at) ==
  [i \in 1..Len(refreshTokens) |->
     IF refreshTokens[i].userId = token.userId
     THEN [refreshTokens[i] EXCEPT !.revokedAt = at]
     ELSE refreshTokens[i]]

\* prisma.refreshToken.updateMany({ where: { tokenHash }, data: { revokedAt } })
RevokeRefreshToken(token, at) ==
  [i \in 1..Len(refreshTokens) |->
     IF refreshTokens[i].tokenHash = hashToken(token)
     THEN [refreshTokens[i] EXCEPT !.revokedAt = at]
     ELSE refreshTokens[i]]

\* refreshTokenSchema.parse; the updateMany is built, with revokedAt: new Date(), and
\* sent.
LogoutBegin(token) ==
  /\ IF ~refreshTokenSchema(token)
     THEN /\ resp' = Response("logout", token, NULL, 400, E_ZOD, 0)
          /\ UNCHANGED inflight
     ELSE /\ inflight' = Append(inflight, Pending("logout", "update", token, NULL, << >>))
          /\ resp' = NoResp
  /\ UNCHANGED <<users, passwordHistory, emailTokens, refreshTokens, activities, now, hits,
                 resetTime>>

\* refreshToken.updateMany and the answer.
LogoutUpdate(k) ==
  /\ At(k, "logout", "update")
  /\ refreshTokens' = RevokeRefreshToken(inflight[k].key, inflight[k].time)
  /\ resp' = Answer(k, Response("logout", inflight[k].key, NULL, 200, OK, 0))
  /\ inflight' = WithoutPending(k)
  /\ UNCHANGED <<users, passwordHistory, emailTokens, activities, now, hits, resetTime>>

\* ----------------------------------------------- POST /auth/dev/unblock
\* user.update({ where: { email } }) and the answer; the update of no row throws.
DevUnblock(e) ==
  /\ NODE_ENV = "development"
  /\ IF e \in DOMAIN users
     THEN /\ users' = [users EXCEPT ![e].status = "ACTIVE",
                                    ![e].failedLoginAttempts = 0]
          /\ resp' = Response("dev/unblock", e, NULL, 200, OK, 0)
     ELSE /\ resp' = Response("dev/unblock", e, NULL, 500, E_INTERNAL, 0)
          /\ UNCHANGED users
  /\ UNCHANGED <<passwordHistory, emailTokens, refreshTokens, activities, now, hits, resetTime,
                 inflight>>

\* ------------------------------------------------------------ activities
\* z.string().datetime() on a field that is present.
IsDatetime(d) == d # NoDate /\ d # BadDate /\ d # EmptyDate

\* A request field as a condition: undefined and the empty string are falsy.
Truthy(d) == d # NoDate /\ d # EmptyDate

\* A date equal to the handling time let through.
NotFuture_AllowsNow(d, at) == d < at

\* scheduledDate <= new Date(): the date is not in the future.
NotFuture(d, at) == d <= at

\* recordedDate >= new Date(): the date is not in the past.
NotPast(d, at) == d >= at

\* The lookup by id alone.
FindActivity_AnyOwner(id, userId) ==
  IF id \in 1..Len(activities) THEN id ELSE 0

\* findFirst({ where: { id, userId } }): the row's position, 0 if none.
FindActivity(id, userId) ==
  IF id \in 1..Len(activities) /\ activities[id].userId = userId THEN id ELSE 0

\* title: z.string().min(1), notes optional, activityType of the enum, scheduledAt a
\* datetime.
createScheduledActivitySchema(body) ==
  /\ body.title # NULL /\ body.title # ""
  /\ body.activityType \in ActivityType
  /\ IsDatetime(body.scheduledAt)

createRecordedActivitySchema(body) ==
  /\ body.activityType \in ActivityType
  /\ IsDatetime(body.recordedAt)
  /\ body.completionOutcome \in CompletionOutcome

\* title: z.string().min(1).optional(), scheduledAt: z.string().datetime().optional()
updateActivitySchema(body) ==
  /\ body.title # ""
  /\ body.scheduledAt = NoDate \/ IsDatetime(body.scheduledAt)

\* The outcome left optional.
completeActivitySchema_OutcomeOptional(body) == IsDatetime(body.completionDate)

completeActivitySchema(body) ==
  /\ IsDatetime(body.completionDate)
  /\ body.completionOutcome \in CompletionOutcome

\* A reason required, of any length.
deleteActivitySchema_AllowsEmpty(body) == body.reason # NULL

\* reason: z.string().min(1)
deleteActivitySchema(body) == body.reason # NULL /\ body.reason # ""

\* The rows the two branches of POST /activities create.
ScheduledActivity(userId, body) ==
  [userId |-> userId, title |-> body.title, notes |-> body.notes,
   activityType |-> body.activityType, scheduledAt |-> body.scheduledAt,
   recordedAt |-> NoDate, completionOutcome |-> NULL,
   deletedAt |-> NoDate, deletedReason |-> NULL]
RecordedActivity(userId, body) ==
  [userId |-> userId, title |-> NULL, notes |-> body.notes,
   activityType |-> body.activityType, scheduledAt |-> NoDate,
   recordedAt |-> body.recordedAt, completionOutcome |-> body.completionOutcome,
   deletedAt |-> NoDate, deletedReason |-> NULL]

\* POST /activities, the caller's access token verified: the branch taken on the body
\* as sent, the schema of the branch and the date against new Date(); activity.create
\* is sent.
CreateActivityBegin(userId, body) ==
  LET isScheduled == Truthy(body.scheduledAt) /\ ~Truthy(body.recordedAt)
      isRecorded == Truthy(body.recordedAt)
      answer(code, error) ==
        Response("create-activity", userId, <<body.scheduledAt, body.recordedAt>>,
                 code, error, 0)
      create(row) ==
        /\ inflight' = Append(inflight, Pending("create-activity", "create", userId, body, row))
        /\ resp' = NoResp
  IN
  /\ IF isScheduled
     THEN IF ~createScheduledActivitySchema(body)
          THEN resp' = answer(400, E_ZOD) /\ UNCHANGED inflight
          ELSE IF NotFuture(body.scheduledAt, now)
          THEN resp' = answer(400, E_SCHEDULED_FUTURE) /\ UNCHANGED inflight
          ELSE create(ScheduledActivity(userId, body))
     ELSE IF isRecorded
     THEN IF ~createRecordedActivitySchema(body)
          THEN resp' = answer(400, E_ZOD) /\ UNCHANGED inflight
          ELSE IF NotPast(body.recordedAt, now)
          THEN resp' = answer(400, E_RECORDED_PAST) /\ UNCHANGED inflight
          ELSE create(RecordedActivity(userId, body))
     ELSE resp' = answer(400, E_EITHER) /\ UNCHANGED inflight
  /\ UNCHANGED <<users, passwordHistory, emailTokens, refreshTokens, activities, now, hits,
                 resetTime>>

\* activity.create and the answer.
CreateActivityCreate(k) ==
  /\ At(k, "create-activity", "create")
  /\ activities' = Append(activities, inflight[k].row)
  /\ resp' = Answer(k, Response("create-activity", inflight[k].key,
                                <<inflight[k].arg.scheduledAt, inflight[k].arg.recordedAt>>,
                                201, OK, 0))
  /\ inflight' = WithoutPending(k)
  /\ UNCHANGED <<users, passwordHistory, emailTokens, refreshTokens, now, hits, resetTime>>

\* PATCH /activities/:id: updateActivitySchema.parse, what activity.findFirst returns
\* and the checks; the update is built.
UpdateActivityBegin(userId, id, body) ==
  LET i == FindActivity(id, userId)
      answer(code, error) ==
        Response("update-activity", id, userId, code, error, body)
  IN
  /\ IF ~updateActivitySchema(body)
     THEN resp' = answer(400, E_ZOD) /\ UNCHANGED inflight
     ELSE IF i = 0
     THEN resp' = answer(404, E_NOT_FOUND) /\ UNCHANGED inflight
     ELSE IF body.scheduledAt # NoDate /\ NotFuture(body.scheduledAt, now)
     THEN resp' = answer(400, E_SCHEDULED_DATE_FUTURE) /\ UNCHANGED inflight
     ELSE /\ inflight' = Append(inflight, Pending("update-activity", "update", i, body, userId))
          /\ resp' = NoResp
  /\ UNCHANGED <<users, passwordHistory, emailTokens, refreshTokens, activities, now, hits,
                 resetTime>>

\* activity.update({ where: { id }, data: { title, notes, scheduledAt } }) and the
\* answer; a field the body leaves out is left as it is.
UpdateActivityUpdate(k) ==
  /\ At(k, "update-activity", "update")
  /\ LET i == inflight[k].key
         body == inflight[k].arg
     IN  /\ activities' =
               [activities EXCEPT
                  ![i].title = IF body.title = NULL THEN @ ELSE body.title,
                  ![i].notes = IF body.notes = NULL THEN @ ELSE body.notes,
                  ![i].scheduledAt =
                     IF body.scheduledAt = NoDate THEN @ ELSE body.scheduledAt]
         /\ resp' = Answer(k, Response("update-activity", i, inflight[k].row, 200, OK, body))
  /\ inflight' = WithoutPending(k)
  /\ UNCHANGED <<users, passwordHistory, emailTokens, refreshTokens, now, hits, resetTime>>

\* The row moved from scheduled to recorded: scheduledAt cleared as well.
CompleteData_ClearsSchedule(activity, body) ==
  [activity EXCEPT !.recordedAt = body.completionDate,
                   !.completionOutcome = body.completionOutcome,
                   !.scheduledAt = NoDate]

\* data: { recordedAt: completionDate, completionOutcome: body.completionOutcome }
CompleteData(activity, body) ==
  [activity EXCEPT !.recordedAt = body.completionDate,
                   !.completionOutcome = body.completionOutcome]

\* POST /activities/:id/complete: completeActivitySchema.parse, what activity.findFirst
\* returns and the checks; the update is built.
CompleteActivityBegin(userId, id, body) ==
  LET i == FindActivity(id, userId)
      answer(code, error) ==
        Response("complete-activity", id, userId, code, error, body)
  IN
  /\ IF ~completeActivitySchema(body)
     THEN resp' = answer(400, E_ZOD) /\ UNCHANGED inflight
     ELSE IF i = 0
     THEN resp' = answer(404, E_NOT_FOUND) /\ UNCHANGED inflight
     ELSE IF activities[i].scheduledAt = NoDate
     THEN resp' = answer(400, E_ONLY_SCHEDULED) /\ UNCHANGED inflight
     ELSE IF NotPast(body.completionDate, now)
     THEN resp' = answer(400, E_COMPLETION_PAST) /\ UNCHANGED inflight
     ELSE /\ inflight' =
               Append(inflight, Pending("complete-activity", "update", i, body, userId))
          /\ resp' = NoResp
  /\ UNCHANGED <<users, passwordHistory, emailTokens, refreshTokens, activities, now, hits,
                 resetTime>>

\* activity.update({ where: { id }, data }) and the answer.
CompleteActivityUpdate(k) ==
  /\ At(k, "complete-activity", "update")
  /\ activities' = [activities EXCEPT ![inflight[k].key] = CompleteData(@, inflight[k].arg)]
  /\ resp' = Answer(k, Response("complete-activity", inflight[k].key, inflight[k].row, 200,
                                OK, inflight[k].arg))
  /\ inflight' = WithoutPending(k)
  /\ UNCHANGED <<users, passwordHistory, emailTokens, refreshTokens, now, hits, resetTime>>

\* DELETE /activities/:id (soft delete): deleteActivitySchema.parse and what
\* activity.findFirst returns; the update is built, with deletedAt: new Date().
DeleteActivityBegin(userId, id, body) ==
  LET i == FindActivity(id, userId)
      answer(code, error) ==
        Response("delete-activity", id, userId, code, error, body)
  IN
  /\ IF ~deleteActivitySchema(body)
     THEN resp' = answer(400, E_ZOD) /\ UNCHANGED inflight
     ELSE IF i = 0
     THEN resp' = answer(404, E_NOT_FOUND) /\ UNCHANGED inflight
     ELSE /\ inflight' = Append(inflight, Pending("delete-activity", "update", i, body, userId))
          /\ resp' = NoResp
  /\ UNCHANGED <<users, passwordHistory, emailTokens, refreshTokens, activities, now, hits,
                 resetTime>>

\* activity.update({ where: { id }, data: { deletedAt, deletedReason } }) and the answer.
DeleteActivityUpdate(k) ==
  /\ At(k, "delete-activity", "update")
  /\ activities' = [activities EXCEPT ![inflight[k].key].deletedAt = inflight[k].time,
                                      ![inflight[k].key].deletedReason = inflight[k].arg.reason]
  /\ resp' = Answer(k, Response("delete-activity", inflight[k].key, inflight[k].row, 200, OK,
                                inflight[k].arg))
  /\ inflight' = WithoutPending(k)
  /\ UNCHANGED <<users, passwordHistory, emailTokens, refreshTokens, now, hits, resetTime>>

\* GET /activities: includeDeleted and view of their enums, from and to datetimes, each
\* optional.
getActivitiesSchema(query) ==
  /\ query.includeDeleted \in {NULL, "true", "false"}
  /\ query.view \in {NULL, "list", "calendar"}
  /\ query.from = NoDate \/ IsDatetime(query.from)
  /\ query.to = NoDate \/ IsDatetime(query.to)

\* where: { scheduledAt | recordedAt: { gte: from, lte: to } } on one column; a NULL
\* column matches no range.
InRange(d, from, to) ==
  /\ d # NoDate
  /\ from = NoDate \/ d >= from
  /\ to = NoDate \/ d <= to

\* The where clause of findMany: the ids of the rows it selects (the answer lists them
\* by scheduledAt, then recordedAt; the order is not modelled).
ListWhere(userId, query) ==
  {i \in 1..Len(activities) :
     /\ activities[i].userId = userId
     /\ query.includeDeleted = "true" \/ activities[i].deletedAt = NoDate
     /\ (query.from # NoDate \/ query.to # NoDate)
          => \/ InRange(activities[i].scheduledAt, query.from, query.to)
             \/ InRange(activities[i].recordedAt, query.from, query.to)}

\* total counted over every row returned, the soft-deleted included.
ListStats_CountsDeleted(found) ==
  [total |-> Cardinality(found),
   open |-> Cardinality({i \in found : activities[i].scheduledAt # NoDate
                                         /\ activities[i].recordedAt = NoDate
                                         /\ activities[i].deletedAt = NoDate}),
   completed |-> Cardinality({i \in found : activities[i].recordedAt # NoDate
                                              /\ activities[i].deletedAt = NoDate})]

\* A completed scheduled activity still counted as open.
ListStats_OpenCountsCompleted(found) ==
  LET live(set) == {i \in set : activities[i].deletedAt = NoDate}
  IN  [total |-> Cardinality(live(found)),
       open |-> Cardinality(live({i \in found : activities[i].scheduledAt # NoDate})),
       completed |-> Cardinality(live({i \in found : activities[i].recordedAt # NoDate}))]

ListStats(found) ==
  LET scheduled == {i \in found : activities[i].scheduledAt # NoDate
                                    /\ activities[i].recordedAt = NoDate}
      recorded == {i \in found : activities[i].recordedAt # NoDate}
      live(set) == {i \in set : activities[i].deletedAt = NoDate}
  IN  [total |-> Cardinality(live(found)),
       open |-> Cardinality(live(scheduled)),
       completed |-> Cardinality(live(recorded))]

\* getActivitiesSchema.parse, activity.findMany and the answer.
ListActivities(userId, query) ==
  /\ resp' =
       IF ~getActivitiesSchema(query)
       THEN Response("list-activities", userId, query, 400, E_ZOD, 0)
       ELSE Response("list-activities", userId, query, 200, OK,
                     [activities |-> ListWhere(userId, query),
                      stats |-> ListStats(ListWhere(userId, query))])
  /\ UNCHANGED <<users, passwordHistory, emailTokens, refreshTokens, activities, now, hits,
                 resetTime, inflight>>

\* ------------------------------------------------------ specifications
\* In every specification the handlers of up to MaxInflight requests run interleaved,
\* one awaited statement at a time, and the clock moves in between.
SignupPasswords == {Pw(1), WeakPw}
LoginPasswords == {Pw(1), Pw(2), EmptyPw}
ResetPasswords == {Pw(1), Pw(2), NoSymbolPw}
TokenInputs == 0..MaxEmailTokens
FirstClient == {"ip1"}

\* No request is in flight: the next one is handled alone.
Idle == inflight = << >>
InflightRoom == Len(inflight) < MaxInflight
\* The requests in flight of the operations ops.
Waiting(ops) == Cardinality({k \in 1..Len(inflight) : inflight[k].op \in ops})
\* The client has sent fewer than n limited requests in its window.
HitRoom(c, n) == hits[c] < n
\* Fewer than MaxEmailTokens email tokens are stored or about to be.
TokenRoom ==
  Len(emailTokens) + Waiting({"signup", "forgot-password"}) < MaxEmailTokens
\* Fewer than MaxRefreshTokens refresh tokens are stored or about to be.
LoginRoom(e, p) ==
  (e \in DOMAIN users /\ comparePassword(p, users[e].passwordHash))
    => Len(refreshTokens) + Waiting({"login"}) < MaxRefreshTokens
\* The accounts between the user.create of their signup and its answer.
SigningUp(e) ==
  \E k \in 1..Len(inflight) :
    /\ inflight[k].op = "signup"
    /\ inflight[k].pc \in {"history", "token", "mail"}
    /\ inflight[k].key = e
\* The accounts that can hold an access token: those whose signup has been answered.
Callers == {u \in DOMAIN users : ~SigningUp(u)}
\* The email is not registered and no signup for it is in flight.
Unregistered(e) ==
  /\ e \notin DOMAIN users
  /\ \A k \in 1..Len(inflight) : inflight[k].op = "signup" => inflight[k].key # e

\* The awaits of the handlers after their first, each for a request in flight.
SignupSteps ==
  \E k \in 1..MaxInflight :
    \/ SignupFind(k) \/ SignupHash(k) \/ SignupCreateUser(k) \/ SignupCreateHistory(k)
    \/ SignupCreateToken(k) \/ SignupMail(k)
LoginSteps ==
  \E k \in 1..MaxInflight :
    LoginFind(k) \/ LoginCompare(k) \/ LoginUpdate(k) \/ LoginCreate(k)
ConfirmEmailSteps == \E k \in 1..MaxInflight : ConfirmEmailCommit(k)
ForgotPasswordSteps ==
  \E k \in 1..MaxInflight :
    ForgotPasswordFind(k) \/ ForgotPasswordCreate(k) \/ ForgotPasswordMail(k)
ResetPasswordSteps ==
  \E k \in 1..MaxInflight :
    \/ ResetPasswordHistory(k) \/ ResetPasswordCompare(k) \/ ResetPasswordHash(k)
    \/ ResetPasswordCommit(k)
RefreshSteps == \E k \in 1..MaxInflight : RefreshFind(k)
LogoutSteps == \E k \in 1..MaxInflight : LogoutUpdate(k)
ActivitySteps ==
  \E k \in 1..MaxInflight :
    \/ CreateActivityCreate(k) \/ UpdateActivityUpdate(k)
    \/ CompleteActivityUpdate(k) \/ DeleteActivityUpdate(k)

\* The refresh tokens the service has issued, and those a client may present.
IssuedTokens == {refreshTokens[i].tokenHash.of : i \in 1..Len(refreshTokens)}
PresentedTokens == IssuedTokens \cup {EmptyToken, ForgedToken}

\* A store in which both accounts have signed up and confirmed their email some
\* milliseconds ago, each with the password Pw(1); the first has since failed a number
\* of logins, sent by clients whose windows are over.
ConfirmedUser ==
  [status |-> "ACTIVE", failedLoginAttempts |-> 0,
   passwordHash |-> hashPassword(Pw(1)), lastLoginAt |-> NoDate]
UsedConfirmToken(e, serial) ==
  [userId |-> e, type |-> "CONFIRM_EMAIL", tokenHash |-> hashToken(serial),
   expiresAt |-> 1 + CONFIRM_TTL, usedAt |-> 2]

AccountsAt(failed, clock) ==
  /\ users = [e \in Emails |->
                IF e = SuspendedEmail
                THEN [ConfirmedUser EXCEPT !.failedLoginAttempts = failed]
                ELSE ConfirmedUser]
  /\ passwordHistory = [e \in Emails |-> <<NewPasswordHistory(hashPassword(Pw(1)), 1)>>]
  /\ emailTokens = <<UsedConfirmToken("a@x.com", 1), UsedConfirmToken("b@x.com", 2)>>
  /\ refreshTokens = << >>
  /\ activities = << >>
  /\ now = clock
  /\ hits = [c \in Clients |-> 0]
  /\ resetTime = [c \in Clients |-> NoDate]
  /\ inflight = << >>
  /\ resp = NoResp

Accounts(failed) == AccountsAt(failed, 3)

InitAccounts == Accounts(0)

\* The start of the next second, for a clock that shows no more than MaxClock.
NextSecond == IF now <= MaxClock THEN {(now \div 1000 + 1) * 1000} ELSE {}

\* Signing up and logging in: signup, confirm-email, login and the development
\* endpoint, each client sending up to MaxRequests limited requests.
NextSignup ==
  \/ \E c \in FirstClient, p \in SignupPasswords :
       /\ InflightRoom /\ HitRoom(c, MaxRequests) /\ TokenRoom
       /\ SignupBegin(c, SuspendedEmail, p)
  \/ SignupSteps
  \/ \E tok \in TokenInputs : InflightRoom /\ ConfirmEmailBegin(tok)
  \/ ConfirmEmailSteps
  \/ \E c \in FirstClient, p \in LoginPasswords :
       /\ InflightRoom /\ HitRoom(c, MaxRequests) /\ LoginRoom(SuspendedEmail, p)
       /\ LoginBegin(c, SuspendedEmail, p)
  \/ LoginSteps
  \/ DevUnblock(SuspendedEmail)
  \/ \E d \in Ticks : Elapse(d)

SpecSignup == Init /\ [][NextSignup]_vars

\* Sequential handling: each request is answered before the next arrives, while the
\* clock moves; the development endpoint is not mounted.  One client sends up to
\* MaxHits logins, the other signs up and sends up to MaxRequests requests in all.
ClientRoom(c) == HitRoom(c, IF c \in FirstClient THEN MaxHits ELSE MaxRequests)

NextSequential ==
  \/ \E c \in Clients \ FirstClient, p \in SignupPasswords :
       /\ Idle /\ ClientRoom(c) /\ TokenRoom
       /\ SignupBegin(c, SuspendedEmail, p)
  \/ SignupSteps
  \/ \E tok \in TokenInputs : Idle /\ ConfirmEmailBegin(tok)
  \/ ConfirmEmailSteps
  \/ \E c \in Clients, p \in LoginPasswords :
       /\ Idle /\ ClientRoom(c) /\ LoginRoom(SuspendedEmail, p)
       /\ LoginBegin(c, SuspendedEmail, p)
  \/ LoginSteps
  \/ \E token \in IssuedTokens : Idle /\ RefreshBegin(token)
  \/ RefreshSteps
  \/ \E token \in IssuedTokens : Idle /\ LogoutBegin(token)
  \/ LogoutSteps
  \/ \E d \in Ticks : Elapse(d)

SpecSequential == Init /\ [][NextSequential]_vars

\* Login and blocking: the logins of one confirmed account that has failed none or
\* eight logins before, with the right and a wrong password, and the development
\* endpoint.
FailedBefore == {0, BLOCK_THRESHOLD - 2}

InitLogin == \E failed \in FailedBefore : Accounts(failed)

NextLogin ==
  \/ \E c \in FirstClient, p \in {Pw(1), Pw(2)} :
       /\ InflightRoom /\ HitRoom(c, MaxRequests) /\ LoginRoom(SuspendedEmail, p)
       /\ LoginBegin(c, SuspendedEmail, p)
  \/ LoginSteps
  \/ DevUnblock(SuspendedEmail)
  \/ \E d \in Ticks : Elapse(d)

SpecLogin == InitLogin /\ [][NextLogin]_vars

\* Email tokens: signup, confirm-email, forgot-password, reset-password and the
\* development endpoint.
NextToken ==
  \/ \E c \in FirstClient :
       /\ InflightRoom /\ HitRoom(c, MaxRequests) /\ TokenRoom /\ Unregistered(SuspendedEmail)
       /\ SignupBegin(c, SuspendedEmail, Pw(1))
  \/ SignupSteps
  \/ \E tok \in TokenInputs : InflightRoom /\ ConfirmEmailBegin(tok)
  \/ ConfirmEmailSteps
  \/ \E c \in FirstClient :
       /\ InflightRoom /\ HitRoom(c, MaxRequests) /\ TokenRoom
       /\ ForgotPassword(c, SuspendedEmail)
  \/ ForgotPasswordSteps
  \/ \E tok \in TokenInputs, p \in ResetPasswords :
       InflightRoom /\ ResetPasswordBegin(tok, p)
  \/ ResetPasswordSteps
  \/ DevUnblock(SuspendedEmail)
  \/ \E d \in Ticks : Elapse(d)

SpecToken == Init /\ [][NextToken]_vars

\* Expiry: the tokens of one account presented while time passes up to and past
\* their expiries.
NextExpiry ==
  \/ \E c \in FirstClient :
       /\ InflightRoom /\ HitRoom(c, MaxRequests) /\ TokenRoom /\ Unregistered(SuspendedEmail)
       /\ SignupBegin(c, SuspendedEmail, Pw(1))
  \/ SignupSteps
  \/ \E tok \in TokenInputs : InflightRoom /\ ConfirmEmailBegin(tok)
  \/ ConfirmEmailSteps
  \/ \E c \in FirstClient :
       /\ InflightRoom /\ HitRoom(c, MaxRequests) /\ TokenRoom
       /\ ForgotPassword(c, SuspendedEmail)
  \/ ForgotPasswordSteps
  \/ \E tok \in TokenInputs : InflightRoom /\ ResetPasswordBegin(tok, Pw(2))
  \/ ResetPasswordSteps
  \/ \E d \in Deadlines : Elapse(d)

SpecExpiry == Init /\ [][NextExpiry]_vars

\* Reset links: forgot-password for a registered and an unregistered email, up to and
\* over the limit of the limiter, while an account signs up.
NextForgot ==
  \/ \E c \in FirstClient :
       /\ InflightRoom /\ HitRoom(c, MaxHits) /\ TokenRoom /\ Unregistered(SuspendedEmail)
       /\ SignupBegin(c, SuspendedEmail, Pw(1))
  \/ SignupSteps
  \/ \E c \in FirstClient, e \in Emails :
       /\ InflightRoom /\ HitRoom(c, MaxHits) /\ TokenRoom
       /\ ForgotPassword(c, e)
  \/ ForgotPasswordSteps
  \/ DevUnblock(SuspendedEmail)
  \/ \E d \in Ticks : Elapse(d)

SpecForgot == Init /\ [][NextForgot]_vars

\* Resetting a password: reset links requested and used one request after another, with
\* three passwords to choose from.
NextReset ==
  \/ \E c \in FirstClient :
       /\ Idle /\ HitRoom(c, MaxRequests) /\ TokenRoom
       /\ ForgotPassword(c, SuspendedEmail)
  \/ ForgotPasswordSteps
  \/ \E tok \in TokenInputs, p \in ResetPasswords \cup {Pw(3)} :
       Idle /\ ResetPasswordBegin(tok, p)
  \/ ResetPasswordSteps
  \/ \E d \in Ticks : Elapse(d)

SpecReset == Init /\ [][NextReset]_vars

\* Sessions: the two accounts log in, refresh and log out, within one second and in
\* the next.
NextSession ==
  \/ \E c \in FirstClient, e \in Emails :
       /\ InflightRoom /\ HitRoom(c, MaxRequests) /\ LoginRoom(e, Pw(1))
       /\ LoginBegin(c, e, Pw(1))
  \/ LoginSteps
  \/ \E token \in PresentedTokens : InflightRoom /\ RefreshBegin(token)
  \/ RefreshSteps
  \/ \E token \in PresentedTokens : InflightRoom /\ LogoutBegin(token)
  \/ LogoutSteps
  \/ \E e \in Emails : DevUnblock(e)
  \/ \E d \in Ticks \cup NextSecond : Elapse(d)

SpecSession == InitAccounts /\ [][NextSession]_vars

\* Refresh tokens presented while time passes up to and past their expiries.
\* The last millisecond before a stored session expires.
LastMoments == {refreshTokens[i].expiresAt - 1 : i \in 1..Len(refreshTokens)}

NextRefresh ==
  \/ \E c \in FirstClient :
       /\ InflightRoom /\ HitRoom(c, MaxRequests) /\ LoginRoom(SuspendedEmail, Pw(1))
       /\ LoginBegin(c, SuspendedEmail, Pw(1))
  \/ LoginSteps
  \/ \E token \in IssuedTokens : InflightRoom /\ RefreshBegin(token)
  \/ RefreshSteps
  \/ \E token \in IssuedTokens : InflightRoom /\ LogoutBegin(token)
  \/ LogoutSteps
  \/ \E d \in LastMoments \cup Deadlines : Elapse(d)

\* The accounts at the start of a second, so that a session signed now expires, token
\* and row, at the same millisecond.
InitRefresh == AccountsAt(0, 1000)

SpecRefresh == InitRefresh /\ [][NextRefresh]_vars

\* Activities: callers, each with a verified access token, create, edit, complete,
\* soft-delete and list up to n activities.
ActivityRoom(n) == Len(activities) + Waiting({"create-activity"}) < n

OneCaller == Callers \cap {SuspendedEmail}

ScheduledBody(at) ==
  [title |-> "t1", notes |-> NULL, activityType |-> "CALL", scheduledAt |-> at,
   recordedAt |-> NoDate, completionOutcome |-> NULL]
RecordedBody(at) ==
  [title |-> NULL, notes |-> NULL, activityType |-> "GYM", scheduledAt |-> NoDate,
   recordedAt |-> at, completionOutcome |-> "COMPLETED_OK"]
Query(includeDeleted, view, from, to) ==
  [includeDeleted |-> includeDeleted, view |-> view, from |-> from, to |-> to]

\* The kinds of activity: bodies with both dates, with none, and with a field that is
\* no datetime or is the empty string.
ActCreates ==
  {ScheduledBody(now + 1), RecordedBody(now - 1),
   [ScheduledBody(now + 1) EXCEPT !.recordedAt = now - 1, !.completionOutcome = "FAILED"],
   ScheduledBody(NoDate),
   [ScheduledBody(now + 1) EXCEPT !.recordedAt = EmptyDate],
   [RecordedBody(now - 1) EXCEPT !.scheduledAt = EmptyDate],
   ScheduledBody(BadDate),
   [ScheduledBody(now + 1) EXCEPT !.title = ""],
   [RecordedBody(now - 1) EXCEPT !.completionOutcome = NULL]}
ActUpdates ==
  {[title |-> "t2", notes |-> NULL, scheduledAt |-> NoDate],
   [title |-> NULL, notes |-> "n1", scheduledAt |-> now + 2],
   [title |-> "", notes |-> NULL, scheduledAt |-> NoDate],
   [title |-> NULL, notes |-> NULL, scheduledAt |-> EmptyDate]}
ActCompletes ==
  [completionDate : {BadDate, now - 2}, completionOutcome : {NULL, "NO_SHOW"}]
ActDeletes == [reason : {NULL, "", "r1"}]
ActQueries == {Query(NULL, NULL, NoDate, NoDate)}

NextAct ==
  \/ \E u \in OneCaller, body \in ActCreates :
       InflightRoom /\ ActivityRoom(MaxActivities) /\ CreateActivityBegin(u, body)
  \/ \E u \in OneCaller, id \in 0..(MaxActivities), body \in ActUpdates :
       InflightRoom /\ UpdateActivityBegin(u, id, body)
  \/ \E u \in OneCaller, id \in 0..(MaxActivities), body \in ActCompletes :
       InflightRoom /\ CompleteActivityBegin(u, id, body)
  \/ \E u \in OneCaller, id \in 0..(MaxActivities), body \in ActDeletes :
       InflightRoom /\ DeleteActivityBegin(u, id, body)
  \/ ActivitySteps
  \/ \E u \in OneCaller, query \in ActQueries : ListActivities(u, query)
  \/ \E d \in Ticks : Elapse(d)

SpecAct == InitAccounts /\ [][NextAct]_vars

\* Dates: create, update and complete requests with dates before, at and after the
\* handling time.
DatesCreates ==
  {ScheduledBody(now), ScheduledBody(now + 1), RecordedBody(now - 1), RecordedBody(now)}
DatesUpdates ==
  [title : {NULL}, notes : {NULL}, scheduledAt : {NoDate, now, now + 1}]
DatesCompletes == [completionDate : {now - 1, now}, completionOutcome : {"NO_SHOW"}]
DatesDeletes == {[reason |-> "r1"]}
DatesQueries == {Query(NULL, NULL, NoDate, NoDate)}

NextDates ==
  \/ \E u \in OneCaller, body \in DatesCreates :
       InflightRoom /\ ActivityRoom(MaxActivities) /\ CreateActivityBegin(u, body)
  \/ \E u \in OneCaller, id \in 0..(MaxActivities), body \in DatesUpdates :
       InflightRoom /\ UpdateActivityBegin(u, id, body)
  \/ \E u \in OneCaller, id \in 0..(MaxActivities), body \in DatesCompletes :
       InflightRoom /\ CompleteActivityBegin(u, id, body)
  \/ \E u \in OneCaller, id \in 0..(MaxActivities), body \in DatesDeletes :
       InflightRoom /\ DeleteActivityBegin(u, id, body)
  \/ ActivitySteps
  \/ \E u \in OneCaller, query \in DatesQueries : ListActivities(u, query)
  \/ \E d \in Ticks : Elapse(d)

SpecDates == InitAccounts /\ [][NextDates]_vars

\* Ownership: one account creates up to MaxActivities + 1 scheduled activities, and
\* both accounts address them, with valid and invalid bodies, and list.
OwnerCreates == {ScheduledBody(MaxClock + 1)}
OwnerUpdates ==
  {[title |-> "t2", notes |-> NULL, scheduledAt |-> NoDate],
   [title |-> "", notes |-> NULL, scheduledAt |-> NoDate]}
OwnerCompletes ==
  {[completionDate |-> 1, completionOutcome |-> "NO_SHOW"],
   [completionDate |-> 1, completionOutcome |-> NULL]}
OwnerDeletes == [reason : {NULL, "r1"}]
OwnerQueries ==
  {Query(NULL, NULL, NoDate, NoDate), Query("true", "calendar", NoDate, 1),
   Query(NULL, "grid", NoDate, NoDate)}

NextOwner ==
  \/ \E u \in OneCaller, body \in OwnerCreates :
       InflightRoom /\ ActivityRoom(MaxActivities + 1) /\ CreateActivityBegin(u, body)
  \/ \E u \in Callers, id \in 0..(MaxActivities + 1), body \in OwnerUpdates :
       InflightRoom /\ UpdateActivityBegin(u, id, body)
  \/ \E u \in Callers, id \in 0..(MaxActivities + 1), body \in OwnerCompletes :
       InflightRoom /\ CompleteActivityBegin(u, id, body)
  \/ \E u \in Callers, id \in 0..(MaxActivities + 1), body \in OwnerDeletes :
       InflightRoom /\ DeleteActivityBegin(u, id, body)
  \/ ActivitySteps
  \/ \E u \in Callers, query \in OwnerQueries : ListActivities(u, query)
  \/ \E d \in Ticks : Elapse(d)

SpecOwner == InitAccounts /\ [][NextOwner]_vars

\* Listing: each of the two accounts creates one scheduled activity; both edit,
\* complete and soft-delete, and list with and without the deleted ones, a view and a
\* date range.
NewOwners ==
  {u \in Callers :
     /\ \A i \in 1..Len(activities) : activities[i].userId # u
     /\ \A k \in 1..Len(inflight) :
          inflight[k].op = "create-activity" => inflight[k].key # u}
ListCreates == {ScheduledBody(MaxClock + 1)}
ListUpdates == {[title |-> "t2", notes |-> NULL, scheduledAt |-> NoDate]}
ListCompletes == {[completionDate |-> 1, completionOutcome |-> "NO_SHOW"]}
ListDeletes == {[reason |-> "r1"]}
ListQueries ==
  {Query(NULL, NULL, NoDate, NoDate), Query("true", "calendar", NoDate, 1),
   Query("false", "list", MaxClock + 2, NoDate), Query(NULL, "grid", NoDate, NoDate)}

NextList ==
  \/ \E u \in NewOwners, body \in ListCreates :
       InflightRoom /\ ActivityRoom(MaxActivities + 1) /\ CreateActivityBegin(u, body)
  \/ \E u \in Callers, id \in 0..(MaxActivities + 1), body \in ListUpdates :
       InflightRoom /\ UpdateActivityBegin(u, id, body)
  \/ \E u \in Callers, id \in 0..(MaxActivities + 1), body \in ListCompletes :
       InflightRoom /\ CompleteActivityBegin(u, id, body)
  \/ \E u \in Callers, id \in 0..(MaxActivities + 1), body \in ListDeletes :
       InflightRoom /\ DeleteActivityBegin(u, id, body)
  \/ ActivitySteps
  \/ \E u \in Callers, query \in ListQueries : ListActivities(u, query)
  \/ \E d \in Ticks : Elapse(d)

SpecList == InitAccounts /\ [][NextList]_vars

\* ================================================================ claims
\* A step of a request: it arrives and waits at its first await (Arrived), it moves
\* from one await to the next (Moved), or it is answered (resp' names it, and the
\* await it was answered from).
Arrived(op) ==
  /\ Len(inflight') = Len(inflight) + 1
  /\ inflight'[Len(inflight')].op = op
Moved(k) ==
  /\ Len(inflight') = Len(inflight)
  /\ inflight'[k] # inflight[k]

Tables == <<users, passwordHistory, emailTokens, refreshTokens, activities>>

TokenRows == 1..Len(emailTokens)
UsedTokens(userId, type) ==
  {i \in TokenRows : /\ emailTokens[i].userId = userId
                     /\ emailTokens[i].type = type
                     /\ emailTokens[i].usedAt # NoDate}

\* The account has confirmed its email with a token of its signup.
EmailConfirmed(e) == UsedTokens(e, "CONFIRM_EMAIL") # {}

\* C1: once an account that confirmed its email is BLOCKED with its counter at 10, as
\* it is after 10 consecutive wrong-password logins from a counter of 0, the next login
\* request for that account is answered 403 Blocked whatever its password.
C1_BlockedAfterTen ==
  [][(/\ resp'.op = "login" /\ resp'.arg # EmptyPw
      /\ resp'.key \in DOMAIN users
      /\ EmailConfirmed(resp'.key)
      /\ users[resp'.key].status = "BLOCKED"
      /\ users[resp'.key].failedLoginAttempts = BLOCK_THRESHOLD)
       => (resp'.code = 403 /\ resp'.error = E_BLOCKED)]_vars

\* C2: a login answered with tokens was made by a user whose status is ACTIVE (a
\* successful login leaves the status as it found it).
C2_OnlyActiveLogsIn ==
  (resp.op = "login" /\ resp.code = 200) => users[resp.key].status = "ACTIVE"

\* C9: dev/unblock aside, a step changes a user's status only from
\* WAITING_EMAIL_CONFIRMATION to ACTIVE (confirm-email) or from ACTIVE to BLOCKED
\* (the failed login that brings the counter to 10).
C9_StatusStep(e) ==
  users'[e].status # users[e].status =>
    \/ /\ users[e].status = "WAITING_EMAIL_CONFIRMATION"
       /\ users'[e].status = "ACTIVE"
       /\ resp'.op = "confirm-email"
    \/ /\ users[e].status = "ACTIVE"
       /\ users'[e].status = "BLOCKED"
       /\ resp'.op = "login"
       /\ users'[e].failedLoginAttempts = BLOCK_THRESHOLD

\* C9, over every step: no request other than dev/unblock changes a status otherwise.
C9_StatusTransitions ==
  [][resp'.op # "dev/unblock" => \A e \in DOMAIN users : C9_StatusStep(e)]_vars

\* C6: whatever the interleaving, a confirm-email or reset-password request succeeds
\* only on a token no earlier request has consumed, so that at most one request per
\* token succeeds and the token authorizes one state change.
C6_OneSuccessPerToken ==
  [][(resp'.op \in ConsumingOps /\ resp'.code = 200)
       => emailTokens[FindEmailToken(resp'.key)].usedAt = NoDate]_vars

\* C7: no step applies confirm-email or reset-password in part.  The step in which
\* either succeeds marks the token it read used, at the time the transaction was
\* built, and in the same step sets the token's user ACTIVE (confirm-email) or replaces
\* the user's hash by that of the one PasswordHistory row it appends (reset-password),
\* and writes nothing else; every other step of the two operations writes nothing.
C7_Commit ==
  (resp'.op \in ConsumingOps /\ resp'.code = 200) =>
    LET i == IF resp'.op = "confirm-email" THEN resp'.read ELSE resp'.read.id
        u == emailTokens[i].userId
    IN  /\ emailTokens[i].tokenHash = hashToken(resp'.key)
        /\ emailTokens[i].type = ConsumedType(resp'.op)
        /\ resp'.at # NoDate
        /\ emailTokens' = [emailTokens EXCEPT ![i].usedAt = resp'.at]
        /\ DOMAIN users' = DOMAIN users
        /\ \A x \in DOMAIN users \ {u} :
             users'[x] = users[x] /\ passwordHistory'[x] = passwordHistory[x]
        /\ IF resp'.op = "confirm-email"
           THEN /\ users'[u] = [users[u] EXCEPT !.status = "ACTIVE"]
                /\ passwordHistory'[u] = passwordHistory[u]
           ELSE /\ users'[u] = [users[u] EXCEPT !.passwordHash = hashPassword(resp'.arg)]
                /\ passwordHistory'[u] =
                     Append(passwordHistory[u],
                            [passwordHash |-> hashPassword(resp'.arg), createdAt |-> now])

C7_OtherSteps ==
  /\ (\E op \in ConsumingOps : Arrived(op)) => UNCHANGED Tables
  /\ (resp'.op \in ConsumingOps /\ resp'.code # 200) => UNCHANGED Tables
  /\ \A k \in 1..Len(inflight) :
       (inflight[k].op \in ConsumingOps /\ Moved(k)) => UNCHANGED Tables

\* And vice versa: a step that writes a token's usedAt, a step other than dev/unblock
\* that activates a waiting user, and a step that changes a hash or, the signup's own
\* row aside, appends a history row, is the step in which the operation succeeds on a
\* token of that user.
C7_SignupHistory(u) ==
  \E k \in 1..Len(inflight) :
    /\ inflight[k].op = "signup" /\ inflight[k].pc = "history"
    /\ inflight[k].key = u /\ Moved(k)

C7_Succeeds(op, u) ==
  /\ resp'.op = op /\ resp'.code = 200
  /\ emailTokens[IF op = "confirm-email" THEN resp'.read ELSE resp'.read.id].userId = u

C7_OnlyTogether ==
  /\ \A i \in TokenRows :
       emailTokens'[i].usedAt # emailTokens[i].usedAt
         => C7_Succeeds(IF emailTokens[i].type = "CONFIRM_EMAIL"
                        THEN "confirm-email" ELSE "reset-password",
                        emailTokens[i].userId)
  /\ \A u \in DOMAIN users :
       /\ (/\ users[u].status = "WAITING_EMAIL_CONFIRMATION"
           /\ users'[u].status = "ACTIVE"
           /\ resp'.op # "dev/unblock")
            => C7_Succeeds("confirm-email", u)
       /\ users'[u].passwordHash # users[u].passwordHash
            => C7_Succeeds("reset-password", u)
       /\ (passwordHistory'[u] # passwordHistory[u] /\ ~C7_SignupHistory(u))
            => C7_Succeeds("reset-password", u)

\* C7, over every step and every interleaving of the handlers.
C7_Atomic == [][C7_Commit /\ C7_OtherSteps /\ C7_OnlyTogether]_vars

\* C7 witness: both transactions have committed: a confirmed user whose password was
\* reset once.
C7_Witness ==
  \E u \in DOMAIN users :
    /\ users[u].status = "ACTIVE"
    /\ UsedTokens(u, "CONFIRM_EMAIL") # {}
    /\ UsedTokens(u, "RESET_PASSWORD") # {}
    /\ Len(passwordHistory[u]) = 2
    /\ users[u].passwordHash = passwordHistory[u][2].passwordHash

\* C8: confirm-email and reset-password change the store only when the token they
\* are given is unused, expires strictly after the time of the request, and is of
\* the type the operation consumes.
C8_ChangesOnlyOnValidToken ==
  [][(/\ resp'.op \in ConsumingOps
      /\ <<users, passwordHistory, emailTokens>>' # <<users, passwordHistory, emailTokens>>)
       => LET i == FindEmailToken(resp'.key)
          IN  /\ i # 0
              /\ emailTokens[i].usedAt = NoDate
              /\ emailTokens[i].expiresAt > now
              /\ emailTokens[i].type = ConsumedType(resp'.op)]_vars

\* C10: a reset-password request with a valid token and a strong password is
\* answered PasswordReused, and changes nothing, exactly when the password is one of
\* the 5 newest rows of the user's PasswordHistory; otherwise it succeeds, and the
\* new hash becomes the user's current hash and the newest history row.  Stated for
\* the accounts with no signup in progress, whose history holds the signup password
\* and every password a reset set, the current one last.
C10_ValidToken(tok) ==
  /\ FindEmailToken(tok) # 0
  /\ emailTokens[FindEmailToken(tok)].usedAt = NoDate
  /\ emailTokens[FindEmailToken(tok)].expiresAt >= now
  /\ emailTokens[FindEmailToken(tok)].type = "RESET_PASSWORD"

C10_InFiveNewest(p, h) ==
  \E k \in 1..Len(h) : k > Len(h) - HISTORY_TAKE /\ h[k].passwordHash = hashPassword(p)

C10_ResetStep ==
  (/\ resp'.op = "reset-password" /\ C10_ValidToken(resp'.key)
   /\ validatePasswordStrength(resp'.arg).valid
   /\ emailTokens[FindEmailToken(resp'.key)].userId \in Callers)
    => LET u == emailTokens[FindEmailToken(resp'.key)].userId
           h == passwordHistory[u]
       IN  IF C10_InFiveNewest(resp'.arg, h)
           THEN /\ resp'.code = 400 /\ resp'.error = E_REUSED
                /\ UNCHANGED <<users, passwordHistory, emailTokens>>
           ELSE /\ resp'.code = 200
                /\ users'[u].passwordHash = hashPassword(resp'.arg)
                /\ Len(passwordHistory'[u]) = Len(h) + 1
                /\ SubSeq(passwordHistory'[u], 1, Len(h)) = h
                /\ passwordHistory'[u][Len(h) + 1].passwordHash = hashPassword(resp'.arg)

\* C10, over every reset-password request: the reuse window is the 5 newest rows.
C10_ReuseWindow ==
  /\ [][C10_ResetStep]_vars
  /\ [](\A u \in Callers :
          /\ passwordHistory[u] # <<>>
          /\ passwordHistory[u][Len(passwordHistory[u])].passwordHash
               = users[u].passwordHash)

\* C3: a PATCH on an activity whose recordedAt is set is answered with an error and
\* leaves the activity's title, notes and scheduledAt as they were.
C3_RecordedIsImmutable ==
  [][(/\ resp'.op = "update-activity"
      /\ resp'.key \in 1..Len(activities)
      /\ activities[resp'.key].recordedAt # NoDate)
       => /\ resp'.code >= 400
          /\ activities'[resp'.key].title = activities[resp'.key].title
          /\ activities'[resp'.key].notes = activities[resp'.key].notes
          /\ activities'[resp'.key].scheduledAt = activities[resp'.key].scheduledAt]_vars

\* C4: a create request that supplies both scheduledAt and recordedAt, or neither,
\* is answered 400 and adds no activity; a field is supplied when it holds a datetime.
C4_SchedulingIsExclusive ==
  [][(/\ resp'.op = "create-activity"
      /\ IsDatetime(resp'.arg[1]) = IsDatetime(resp'.arg[2]))
       => (resp'.code = 400 /\ activities' = activities)]_vars

\* C5: complete succeeds only on an activity with scheduledAt and without recordedAt,
\* and no operation changes or clears the recordedAt and completionOutcome of an
\* activity whose recordedAt is set.
C5_CompletionIsOneWay ==
  [][/\ (resp'.op = "complete-activity" /\ resp'.code = 200)
          => /\ activities[resp'.key].scheduledAt # NoDate
             /\ activities[resp'.key].recordedAt = NoDate
     /\ \A i \in 1..Len(activities) :
          activities[i].recordedAt # NoDate
            => /\ activities'[i].recordedAt = activities[i].recordedAt
               /\ activities'[i].completionOutcome = activities[i].completionOutcome]_vars

\* C11: a refresh is answered with a new access token only when the presented token
\* verified as the request came in and a RefreshToken row with its hash exists that
\* is unrevoked and expires after the time at which the handler tests it; a revoked
\* row stays revoked, so that after a logout every refresh with that token is
\* answered 401.
C11_RefreshOnlyValid ==
  /\ []((resp.op = "refresh" /\ resp.code = 200)
          => /\ verifyRefreshToken(resp.key, resp.at)
             /\ \E i \in 1..Len(refreshTokens) :
                  /\ refreshTokens[i].tokenHash = hashToken(resp.key)
                  /\ refreshTokens[i].revokedAt = NoDate
                  /\ refreshTokens[i].expiresAt > now)
  /\ []((resp.op = "refresh" /\ resp.key # EmptyToken
           /\ \E i \in 1..Len(refreshTokens) :
                /\ refreshTokens[i].tokenHash = hashToken(resp.key)
                /\ refreshTokens[i].revokedAt # NoDate)
          => resp.code = 401)
  /\ [][\A i \in 1..Len(refreshTokens) :
          refreshTokens[i].revokedAt # NoDate => refreshTokens'[i].revokedAt # NoDate]_vars

\* C12: a logout with a non-empty token string is never refused: it is sent to the
\* database whether the token is unknown, revoked already or still valid, and is
\* answered 200; it leaves the row of that token revoked, with the time the handler
\* built the update, and every other row, and every other table, as it was.  Nothing
\* is written before.
C12_Arrival ==
  /\ (resp'.op = "logout" /\ resp'.pc = "begin")
       => (resp'.key = EmptyToken /\ resp'.code = 400)
  /\ Arrived("logout") => inflight'[Len(inflight')].key # EmptyToken
  /\ (Arrived("logout") \/ (resp'.op = "logout" /\ resp'.pc = "begin"))
       => UNCHANGED Tables

C12_Answer ==
  (resp'.op = "logout" /\ resp'.pc # "begin")
    => /\ resp'.code = 200
       /\ resp'.at # NoDate
       /\ Len(refreshTokens') = Len(refreshTokens)
       /\ \A i \in 1..Len(refreshTokens) :
            IF refreshTokens[i].tokenHash = hashToken(resp'.key)
            THEN refreshTokens'[i] = [refreshTokens[i] EXCEPT !.revokedAt = resp'.at]
            ELSE refreshTokens'[i] = refreshTokens[i]
       /\ UNCHANGED <<users, passwordHistory, emailTokens, activities>>

C12_LogoutIdempotent == [][C12_Arrival /\ C12_Answer]_vars

\* C12 witness: a logout repeated on a row revoked before, answered 200, beside a row
\* of another session of the same user that is still valid.
C12_Witness ==
  /\ resp.op = "logout" /\ resp.code = 200
  /\ \E i, j \in 1..Len(refreshTokens) :
       /\ refreshTokens[i].tokenHash = hashToken(resp.key)
       /\ refreshTokens[i].revokedAt # NoDate
       /\ refreshTokens[j].userId = refreshTokens[i].userId
       /\ refreshTokens[j].revokedAt = NoDate

\* C13: the answer to a forgot-password request (code and body) does not depend on
\* whether the email is registered.  As it comes in the limiter counts it and refuses
\* it, 429, when the client is over its limit, whatever the email; a request let
\* through is answered with the generic acknowledgement, at once when the lookup finds
\* no user and, when it finds one, after the handler has stored one unused
\* RESET_PASSWORD token of that user expiring an hour after the handler built it.  The
\* handler writes nothing else, and nothing at all for an email that is not
\* registered.  Time may pass while the request waits for the database and the mail.
C13_Token(e, serial, at) ==
  [userId |-> e, type |-> "RESET_PASSWORD", tokenHash |-> hashToken(serial),
   expiresAt |-> at + 60 * 60 * 1000, usedAt |-> NoDate]

C13_Acknowledged ==
  resp'.code = 200 /\ resp'.error = OK /\ resp'.extra = M_RESET_SENT

C13_Arrival ==
  (Arrived("forgot-password") \/ (resp'.op = "forgot-password" /\ resp'.pc = "begin"))
    => /\ UNCHANGED Tables
       /\ \E c \in Clients :
            /\ hits'[c] = hits[c] + 1
            /\ IF hits[c] >= 10
               THEN /\ resp'.op = "forgot-password"
                    /\ resp'.code = 429 /\ resp'.error = E_RATE
               ELSE Arrived("forgot-password")

C13_Lookup ==
  /\ (resp'.op = "forgot-password" /\ resp'.pc = "find")
       => /\ resp'.key \notin DOMAIN users
          /\ C13_Acknowledged
          /\ UNCHANGED Tables
  /\ \A k \in 1..Len(inflight) :
       (inflight[k].op = "forgot-password" /\ inflight[k].pc = "find" /\ Moved(k))
         => /\ inflight[k].key \in DOMAIN users
            /\ UNCHANGED Tables

C13_Store ==
  /\ \A k \in 1..Len(inflight) :
       (inflight[k].op = "forgot-password" /\ inflight[k].pc = "create" /\ Moved(k))
         => /\ emailTokens' =
                 Append(emailTokens, C13_Token(inflight[k].key, Len(emailTokens) + 1,
                                               inflight[k].time))
            /\ inflight[k].time <= now
            /\ UNCHANGED <<users, passwordHistory, refreshTokens, activities>>
  /\ (resp'.op = "forgot-password" /\ resp'.pc \notin {"begin", "find"})
       => /\ resp'.pc = "mail"
          /\ resp'.key \in DOMAIN users
          /\ C13_Acknowledged
          /\ UNCHANGED Tables

C13_NoEnumeration == [][C13_Arrival /\ C13_Lookup /\ C13_Store]_vars

\* C13 witness: the acknowledgement given for an email no user has, in a store that
\* holds a reset token of a registered one.
C13_Witness ==
  /\ resp.op = "forgot-password" /\ resp.key \notin DOMAIN users
  /\ resp.code = 200 /\ resp.extra = M_RESET_SENT
  /\ \E i \in TokenRows : emailTokens[i].type = "RESET_PASSWORD"

\* C14 (as stated): an update, complete or soft-delete addressed to an activity the
\* caller does not own is answered 404 and changes no activity, and a list answers
\* with activities of the caller only.
C14_NotOwner ==
  /\ resp'.op \in {"update-activity", "complete-activity", "delete-activity"}
  /\ resp'.key \in 1..Len(activities)
  /\ activities[resp'.key].userId # resp'.arg

C14_ListsOwn ==
  (resp.op = "list-activities" /\ resp.code = 200)
    => \A i \in resp.extra.activities : activities[i].userId = resp.key

C14_AlwaysNotFound ==
  /\ [][C14_NotOwner => /\ resp'.code = 404 /\ resp'.error = E_NOT_FOUND
                        /\ activities' = activities]_vars
  /\ []C14_ListsOwn

\* C14 (amended): the body is parsed before the activity is looked up, so the request
\* is answered 400 when its body does not pass the schema of the operation and 404
\* when it does; either way it is answered before anything is sent to be written and
\* no activity changes.  A list answers with activities of the caller only.
C14_Schema(op, body) ==
  IF op = "update-activity" THEN updateActivitySchema(body)
  ELSE IF op = "complete-activity" THEN completeActivitySchema(body)
  ELSE deleteActivitySchema(body)

C14_Refused ==
  C14_NotOwner
    => /\ resp'.pc = "begin"
       /\ activities' = activities
       /\ IF C14_Schema(resp'.op, resp'.extra)
          THEN resp'.code = 404 /\ resp'.error = E_NOT_FOUND
          ELSE resp'.code = 400 /\ resp'.error = E_ZOD

C14_OwnerWrites ==
  \A op \in {"update-activity", "complete-activity", "delete-activity"} :
    Arrived(op)
      => LET r == inflight'[Len(inflight')]
         IN  /\ r.key \in 1..Len(activities)
             /\ activities[r.key].userId = r.row
             /\ activities' = activities

C14_OwnerOnly == [][C14_Refused /\ C14_OwnerWrites]_vars /\ []C14_ListsOwn

\* C14 witness: a soft-delete of another user's activity with a reason, answered 404.
C14_Witness ==
  /\ resp.op = "delete-activity" /\ resp.code = 404
  /\ resp.extra.reason = "r1"
  /\ resp.key \in 1..Len(activities)
  /\ activities[resp.key].userId # resp.arg
  /\ activities[resp.key].deletedAt = NoDate

\* C15: every activity has deletedAt and deletedReason both set or both unset, and a
\* set reason is not empty; a soft-delete without a reason or with an empty one is
\* answered 400 before anything is sent to be written and changes nothing; no step
\* clears the pair once it is set.
C15_NoReason(body) == body.reason \in {NULL, ""}

C15_DeletedPair ==
  /\ [](\A i \in 1..Len(activities) :
          /\ (activities[i].deletedAt = NoDate) = (activities[i].deletedReason = NULL)
          /\ activities[i].deletedReason # "")
  /\ [][/\ (resp'.op = "delete-activity" /\ C15_NoReason(resp'.extra))
             => (resp'.code = 400 /\ resp'.pc = "begin" /\ activities' = activities)
        /\ Arrived("delete-activity") => ~C15_NoReason(inflight'[Len(inflight')].arg)
        /\ \A i \in 1..Len(activities) :
             activities[i].deletedAt # NoDate
               => /\ activities'[i].deletedAt # NoDate
                  /\ activities'[i].deletedReason # NULL]_vars

\* C15 witness: an update has gone through on a soft-deleted activity, whose pair is
\* still set.
C15_Witness ==
  /\ resp.op = "update-activity" /\ resp.code = 200
  /\ activities[resp.key].deletedAt # NoDate
  /\ activities[resp.key].deletedReason = "r1"

\* C16: a list answers with exactly the caller's activities that are not soft-deleted,
\* or with the soft-deleted ones too when includeDeleted is "true", restricted, when
\* from or to is given, to those with scheduledAt or recordedAt within from..to; its
\* stats count, among the returned activities that are not deleted, all of them
\* (total), those with scheduledAt and no recordedAt (open) and those with recordedAt
\* (completed).
C16_Live(i) == activities[i].deletedAt = NoDate

C16_Within(d, q) ==
  d # NoDate /\ (q.from # NoDate => q.from <= d) /\ (q.to # NoDate => d <= q.to)

C16_Expected(u, q) ==
  {i \in 1..Len(activities) :
     /\ activities[i].userId = u
     /\ C16_Live(i) \/ q.includeDeleted = "true"
     /\ (q.from = NoDate /\ q.to = NoDate)
          \/ C16_Within(activities[i].scheduledAt, q)
          \/ C16_Within(activities[i].recordedAt, q)}

C17_Entered ==
  /\ Arrived("create-activity") =>
       LET row == inflight'[Len(inflight')].row
       IN  /\ row.scheduledAt # NoDate => row.scheduledAt > now
           /\ row.recordedAt # NoDate => row.recordedAt < now
           /\ row.scheduledAt # NoDate \/ row.recordedAt # NoDate
  /\ Arrived("update-activity") =>
       LET body == inflight'[Len(inflight')].arg
       IN  body.scheduledAt # NoDate => body.scheduledAt > now
  /\ Arrived("complete-activity") =>
       inflight'[Len(inflight')].arg.completionDate < now

C17_Accepted ==
  resp'.code \in {200, 201} =>
    /\ resp'.op = "create-activity" =>
         LET row == activities'[Len(activities')]
         IN  /\ Len(activities') = Len(activities) + 1
             /\ row.scheduledAt # NoDate => row.scheduledAt > resp'.at
             /\ row.recordedAt # NoDate => row.recordedAt < resp'.at
             /\ row.scheduledAt # NoDate \/ row.recordedAt # NoDate
    /\ (resp'.op = "update-activity" /\ resp'.extra.scheduledAt # NoDate) =>
         /\ resp'.extra.scheduledAt > resp'.at
         /\ activities'[resp'.key].scheduledAt = resp'.extra.scheduledAt
    /\ resp'.op = "complete-activity" =>
         /\ resp'.extra.completionDate < resp'.at
         /\ activities'[resp'.key].recordedAt = resp'.extra.completionDate

C17_EqualRejected ==
  (\/ resp'.op = "create-activity" /\ resp'.arg[1] = resp'.at /\ resp'.arg[2] = NoDate
   \/ resp'.op = "create-activity" /\ resp'.arg[2] = resp'.at
   \/ resp'.op = "update-activity" /\ resp'.extra.scheduledAt = resp'.at
   \/ resp'.op = "complete-activity" /\ resp'.extra.completionDate = resp'.at)
    => (resp'.code \in {400, 404} /\ resp'.pc = "begin" /\ activities' = activities)

C17_StrictDates == [][C17_Entered /\ C17_Accepted /\ C17_EqualRejected]_vars

\* C17 witness: an update that moves scheduledAt to the handling time, refused, on an
\* activity created a millisecond before.
C17_Witness ==
  /\ resp.op = "update-activity" /\ resp.extra.scheduledAt = now
  /\ resp.code = 400 /\ resp.error = E_SCHEDULED_DATE_FUTURE
  /\ resp.at = now /\ now = MaxClock
  /\ activities[resp.key].scheduledAt = now

\* C18 (as stated): a login the handler runs with a wrong password on an ACTIVE account
\* adds exactly 1 to failedLoginAttempts; when the new value is 10 the status becomes
\* BLOCKED and the answer is 403 Blocked, otherwise the status stays ACTIVE and the
\* answer is 401 InvalidCredentials with remainingAttempts = 10 - the new value.
C18_WrongPassword(e, p) ==
  /\ e \in DOMAIN users
  /\ users[e].status = "ACTIVE"
  /\ p # EmptyPw
  /\ users[e].passwordHash # hashPassword(p)

C18_ReadWrong(row, p) ==
  row.status = "ACTIVE" /\ row.passwordHash # hashPassword(p)

C18_Answered ==
  (resp'.op = "login" /\ resp'.pc = "update" /\ C18_ReadWrong(resp'.read, resp'.arg))
    => LET e == resp'.key
           counter == resp'.read.failedLoginAttempts + 1
       IN  /\ users'[e].failedLoginAttempts = counter
           /\ IF counter = 10
              THEN /\ users'[e].status = "BLOCKED"
                   /\ resp'.code = 403 /\ resp'.error = E_NOW_BLOCKED
              ELSE /\ users'[e].status = "ACTIVE"
                   /\ resp'.code = 401 /\ resp'.error = E_INVALID_CREDENTIALS
                   /\ resp'.extra = 10 - counter

C18_NotBefore ==
  \A k \in 1..Len(inflight) :
    (inflight[k].op = "login" /\ Moved(k))
      => /\ inflight[k].pc = "find" => inflight'[k].row = users[inflight[k].key]
         /\ inflight[k].pc = "compare" => UNCHANGED users
         /\ inflight[k].pc = "update" =>
              ~C18_ReadWrong(inflight[k].row, inflight[k].arg)

C19_ReadRight(row, p) ==
  row.status = "ACTIVE" /\ row.passwordHash = hashPassword(p)

C19_NotRefused ==
  /\ (resp'.op = "login" /\ resp'.pc = "find" /\ resp'.key \in DOMAIN users)
       => users[resp'.key].status # "ACTIVE"
  /\ (resp'.op = "login" /\ resp'.pc = "update")
       => ~C19_ReadRight(resp'.read, resp'.arg)

C19_Update ==
  \A k \in 1..Len(inflight) :
    (/\ inflight[k].op = "login" /\ inflight[k].pc = "update" /\ Moved(k)
     /\ C19_ReadRight(inflight[k].row, inflight[k].arg))
      => LET e == inflight[k].key
         IN  /\ users'[e].failedLoginAttempts = 0
             /\ users'[e].lastLoginAt = inflight[k].time
             /\ users'[e].status = users[e].status
             /\ inflight'[k].pc = "create"

C19_Answer ==
  (resp'.op = "login" /\ resp'.pc = "create" /\ C19_ReadRight(resp'.read, resp'.arg))
    => /\ resp'.code = 200
       /\ Len(refreshTokens') = Len(refreshTokens) + 1
       /\ refreshTokens'[Len(refreshTokens')].userId = resp'.key
       /\ refreshTokens'[Len(refreshTokens')].revokedAt = NoDate
       /\ refreshTokens'[Len(refreshTokens')].expiresAt
            = resp'.at + 7 * 24 * 60 * 60 * 1000

C19_CorrectLoginSucceeds == [][C19_NotRefused /\ C19_Update /\ C19_Answer]_vars

\* --------------------------------------------- password strength, alone
\* Passwords as strings of UTF-16 code units of at most MaxPasswordLength units, over
\* a letter, a digit, a symbol of the class and "~", which is in none of the classes.
StrengthChars == {"a", "1", "!", "~"}
StrengthPasswords == UNION {[1..n -> StrengthChars] : n \in 0..MaxPasswordLength}

\* A caller holding a password p.
InitStrength ==
  /\ users = << >> /\ passwordHistory = << >>
  /\ emailTokens = << >> /\ refreshTokens = << >> /\ activities = << >>
  /\ now = 3
  /\ hits = [c \in Clients |-> 0]
  /\ resetTime = [c \in Clients |-> NoDate]
  /\ inflight = << >>
  /\ \E p \in StrengthPasswords : resp = Response("password", NULL, p, 0, OK, FALSE)

\* validatePasswordStrength(password) returns { valid, error? }.
ValidatePasswordStrength ==
  /\ resp.op = "password"
  /\ resp' = Response("validatePasswordStrength", NULL, resp.arg, 0,
                      validatePasswordStrength(resp.arg).error,
                      validatePasswordStrength(resp.arg).valid)
  /\ UNCHANGED <<users, passwordHistory, emailTokens, refreshTokens, activities, now,
                 hits, resetTime, inflight>>

NextStrength == ValidatePasswordStrength

SpecStrength == InitStrength /\ [][NextStrength]_vars

\* C20: validatePasswordStrength(p).valid is true exactly when p has at least 8
\* characters and holds a letter, a digit and a symbol of the punctuation class; when
\* it is false the error is that of the first rule that fails, in the order length,
\* letter, digit, symbol.
C20_Has(p, class) == \E i \in DOMAIN p : p[i] \in class

C20_FirstFailing(p) ==
  IF Len(p) < 8 THEN "Password must be at least 8 characters long"
  ELSE IF ~C20_Has(p, Letters) THEN "Password must include at least one letter"
  ELSE IF ~C20_Has(p, Digits) THEN "Password must include at least one number"
  ELSE "Password must include at least one symbol"

C20_StrengthRules ==
  resp.op = "validatePasswordStrength"
    => LET p == resp.arg
           strong == /\ Len(p) >= 8
                     /\ C20_Has(p, Letters) /\ C20_Has(p, Digits) /\ C20_Has(p, Symbols)
       IN  /\ resp.extra = strong
           /\ ~strong => resp.error = C20_FirstFailing(p)

\* C20 witness: a password that breaks every rule at once, answered with the length
\* error.
C20_Witness ==
  /\ resp.op = "validatePasswordStrength"
  /\ Len(resp.arg) = 7
  /\ \A i \in DOMAIN resp.arg : resp.arg[i] = "~"
  /\ resp.extra = FALSE
  /\ resp.error = E_PW_LENGTH

\* C21: signup with a strong password for an email the store does not hold creates
\* the user in WAITING_EMAIL_CONFIRMATION with one PasswordHistory row and one unused
\* CONFIRM_EMAIL token expiring 24 h after the handler built it; a signup for an email
\* the store holds is rejected and creates nothing; confirm-email with the signup's
\* token then answers 200 and sets the status to ACTIVE; the login that follows with
\* the signup's credentials answers 200 with an access token and a refresh token.
\* By steps, with other requests and the clock in between.
C21_Strong(p) ==
  /\ Len(p) >= 8
  /\ \E i \in DOMAIN p : p[i] \in Letters
  /\ \E i \in DOMAIN p : p[i] \in Digits
  /\ \E i \in DOMAIN p : p[i] \in Symbols

\* A signup answered before it has written: with 429 or 400 as it comes in, with 400
\* when the lookup finds the email or the password is weak, with 500 when another
\* signup has created the email since the lookup.  A signup goes on past the lookup
\* only for an email the store does not hold and with a strong password.
C21_Rejected ==
  /\ (Arrived("signup") \/ (resp'.op = "signup" /\ resp'.pc = "begin"))
       => UNCHANGED Tables
  /\ (resp'.op = "signup" /\ resp'.pc \in {"begin", "find", "user"})
       => /\ resp'.code \in {400, 429, 500}
          /\ UNCHANGED Tables
  /\ (resp'.op = "signup" /\ resp'.pc = "find")
       => /\ resp'.code = 400
          /\ resp'.key \in DOMAIN users \/ ~C21_Strong(resp'.arg)
  /\ (resp'.op = "signup" /\ resp'.pc = "user") => resp'.key \in DOMAIN users
  /\ \A e \in DOMAIN users :
       (resp'.op = "signup" /\ resp'.key = e /\ resp'.pc # "mail")
         => resp'.code \in {400, 429, 500}

\* The statements of a signup that goes on: each writes its row and nothing else.
C21_Creates ==
  \A k \in 1..Len(inflight) :
    (inflight[k].op = "signup" /\ Moved(k))
      => LET e == inflight[k].key
             p == inflight[k].arg
         IN  /\ UNCHANGED <<refreshTokens, activities>>
             /\ inflight[k].pc \in {"find", "hash"} =>
                  /\ e \notin DOMAIN users \/ inflight[k].pc = "hash"
                  /\ C21_Strong(p)
                  /\ UNCHANGED Tables
             /\ inflight[k].pc = "user" =>
                  /\ e \notin DOMAIN users
                  /\ DOMAIN users' = DOMAIN users \cup {e}
                  /\ users'[e].status = "WAITING_EMAIL_CONFIRMATION"
                  /\ users'[e].passwordHash = hashPassword(p)
                  /\ users'[e].failedLoginAttempts = 0
                  /\ passwordHistory'[e] = << >>
                  /\ \A x \in DOMAIN users :
                       users'[x] = users[x] /\ passwordHistory'[x] = passwordHistory[x]
                  /\ UNCHANGED emailTokens
             /\ inflight[k].pc = "history" =>
                  /\ passwordHistory'[e] =
                       <<[passwordHash |-> hashPassword(p), createdAt |-> now]>>
                  /\ passwordHistory[e] = << >>
                  /\ \A x \in DOMAIN users \ {e} : passwordHistory'[x] = passwordHistory[x]
                  /\ UNCHANGED <<users, emailTokens>>
             /\ inflight[k].pc = "token" =>
                  /\ Len(emailTokens') = Len(emailTokens) + 1
                  /\ SubSeq(emailTokens', 1, Len(emailTokens)) = emailTokens
                  /\ emailTokens'[Len(emailTokens')].userId = e
                  /\ emailTokens'[Len(emailTokens')].type = "CONFIRM_EMAIL"
                  /\ emailTokens'[Len(emailTokens')].usedAt = NoDate
                  /\ emailTokens'[Len(emailTokens')].expiresAt
                       = inflight[k].time + 24 * 60 * 60 * 1000
                  /\ inflight[k].time <= now
                  /\ \A j \in TokenRows : emailTokens[j].userId # e
                  /\ UNCHANGED <<users, passwordHistory>>

C21_Created ==
  (resp'.op = "signup" /\ resp'.pc = "mail")
    => /\ resp'.code = 201
       /\ resp'.key \in DOMAIN users
       /\ Len(passwordHistory[resp'.key]) = 1
       /\ passwordHistory[resp'.key][1].passwordHash = hashPassword(resp'.arg)
       /\ \E i \in TokenRows :
            /\ emailTokens[i].userId = resp'.key
            /\ emailTokens[i].type = "CONFIRM_EMAIL"
            /\ emailTokens[i].expiresAt = resp'.read
       /\ UNCHANGED Tables

\* The signup's token: a CONFIRM_EMAIL token not yet used and not yet expired.
C21_SignupToken(i) ==
  /\ i \in TokenRows
  /\ emailTokens[i].type = "CONFIRM_EMAIL"
  /\ emailTokens[i].usedAt = NoDate
  /\ emailTokens[i].expiresAt >= now

\* confirm-email with it is not refused, and is answered 200 with the user ACTIVE and
\* the token used.
C21_Confirm ==
  /\ (resp'.op = "confirm-email" /\ resp'.pc = "begin")
       => (resp'.code = 400 /\ ~C21_SignupToken(FindEmailToken(resp'.key)))
  /\ Arrived("confirm-email")
       => C21_SignupToken(FindEmailToken(inflight'[Len(inflight')].key))
  /\ (resp'.op = "confirm-email" /\ resp'.pc = "commit")
       => /\ resp'.code = 200
          /\ emailTokens[resp'.read].tokenHash = hashToken(resp'.key)
          /\ users'[emailTokens[resp'.read].userId].status = "ACTIVE"
          /\ emailTokens'[resp'.read].usedAt = resp'.at

\* The login after the confirmation, with the password given at signup: a login whose
\* handler read the account ACTIVE, with that password, answered while no refresh token
\* of the account is stored.
C21_Login ==
  /\ (resp'.op = "login" /\ resp'.pc = "find" /\ resp'.key \in DOMAIN users)
       => users[resp'.key].status # "ACTIVE"
  /\ (resp'.op = "login" /\ resp'.pc = "update")
       => resp'.read.passwordHash # hashPassword(resp'.arg)
  /\ (/\ resp'.op = "login" /\ resp'.pc = "create"
      /\ resp'.read.status = "ACTIVE"
      /\ EmailConfirmed(resp'.key)
      /\ \A i \in 1..Len(refreshTokens) : refreshTokens[i].userId # resp'.key)
       => /\ resp'.code = 200
          /\ resp'.read.passwordHash = hashPassword(resp'.arg)
          /\ Len(passwordHistory[resp'.key]) = 1
          /\ passwordHistory[resp'.key][1].passwordHash = hashPassword(resp'.arg)
          /\ resp'.extra.accessToken.userId = resp'.key
          /\ resp'.extra.refreshToken.userId = resp'.key
          /\ \E i \in 1..Len(refreshTokens') :
               /\ refreshTokens'[i].tokenHash = hashToken(resp'.extra.refreshToken)
               /\ refreshTokens'[i].userId = resp'.key
               /\ refreshTokens'[i].revokedAt = NoDate

C21_SignupConfirmLogin ==
  [][C21_Rejected /\ C21_Creates /\ C21_Created /\ C21_Confirm /\ C21_Login]_vars

\* C21 witness: the account signed up, its token was used to confirm it, and the
\* login after that was answered 200 with its tokens.
C21_Witness ==
  /\ resp.op = "login" /\ resp.code = 200
  /\ users[resp.key].status = "ACTIVE"
  /\ users[resp.key].failedLoginAttempts = 0
  /\ \E i \in TokenRows :
       /\ emailTokens[i].userId = resp.key
       /\ emailTokens[i].type = "CONFIRM_EMAIL"
       /\ emailTokens[i].usedAt # NoDate
       /\ emailTokens[i].usedAt < resp.at
  /\ \E i \in 1..Len(refreshTokens) :
       refreshTokens[i].tokenHash = hashToken(resp.extra.refreshToken)

\* C22: confirm-email answers, in this order of precedence, InvalidToken when no
\* token row has the hash, AlreadyUsed when usedAt is set, Expired when the expiry
\* has passed by the time the handler reads the token, WrongType when the type is not
\* CONFIRM_EMAIL, and succeeds otherwise; each of the four failures leaves every
\* user's status and every token row as they were.
C22_Expected(tok, at) ==
  IF \A i \in 1..Len(emailTokens) : emailTokens[i].tokenHash # hashToken(tok)
  THEN "Invalid or expired token"
  ELSE LET row == emailTokens[CHOOSE i \in 1..Len(emailTokens) :
                                emailTokens[i].tokenHash = hashToken(tok)]
       IN  IF row.usedAt # NoDate THEN "Token already used"
           ELSE IF row.expiresAt < at THEN "Token expired"
           ELSE IF row.type # "CONFIRM_EMAIL" THEN "Invalid token type"
           ELSE "ok"

C22_ConfirmPrecedence ==
  [][resp'.op = "confirm-email"
       => /\ resp'.error = C22_Expected(resp'.key, resp'.at)
          /\ IF C22_Expected(resp'.key, resp'.at) = "ok"
             THEN resp'.code = 200
             ELSE /\ resp'.code = 400
                  /\ UNCHANGED <<users, emailTokens>>]_vars

\* C23: with login handlers interleaved, once an account is BLOCKED no login sets
\* its status back to ACTIVE.
C23_BlockedStays ==
  [][\A e \in DOMAIN users :
       (users[e].status = "BLOCKED" /\ resp'.op = "login")
         => users'[e].status # "ACTIVE"]_vars

\* C24: once an activity is soft-deleted none of its fields changes afterwards; stated
\* here for the activities not yet recorded, which update and complete otherwise accept.
C24_DeletedIsFrozen ==
  [][\A i \in 1..Len(activities) :
       (activities[i].deletedAt # NoDate /\ activities[i].recordedAt = NoDate)
         => activities'[i] = activities[i]]_vars

\* C25: refresh issues no access token on a refresh token of an account that is
\* BLOCKED; stated here for the accounts that signed up and confirmed their email.
C25_BlockedGetsNoToken ==
  [][\A i \in 1..Len(refreshTokens) :
       (/\ resp'.op = "refresh"
        /\ refreshTokens[i].tokenHash = hashToken(resp'.key)
        /\ users[refreshTokens[i].userId].status = "BLOCKED"
        /\ EmailConfirmed(refreshTokens[i].userId))
         => resp'.code # 200]_vars

\* C26: after a successful reset-password of a user, no RESET_PASSWORD token issued to
\* that user before that reset changes the password again.
C26_EarlierTokensDie ==
  [][\A i, j \in 1..Len(emailTokens) :
       (/\ resp'.op = "reset-password"
        /\ emailTokens[i].tokenHash = hashToken(resp'.key)
        /\ j # i
        /\ emailTokens[j].type = "RESET_PASSWORD"
        /\ emailTokens[j].userId = emailTokens[i].userId
        /\ emailTokens[j].usedAt # NoDate
        /\ emailTokens[i].expiresAt - 60 * 60 * 1000 < emailTokens[j].usedAt)
         => /\ resp'.code # 200
            /\ users'[emailTokens[i].userId].passwordHash
                 = users[emailTokens[i].userId].passwordHash]_vars

\* C27: in every reachable state every activity has completionOutcome present exactly
\* when recordedAt is present; an activity created with a scheduledAt has neither, one
\* created without and a completed one have both, and update and soft-delete change
\* neither.
C27_Paired(a) == (a.completionOutcome # NULL) <=> (a.recordedAt # NoDate)

C27_Step ==
  /\ (resp'.op = "create-activity" /\ resp'.code = 201) =>
       LET a == activities'[Len(activities')]
       IN  /\ Len(activities') = Len(activities) + 1
           /\ SubSeq(activities', 1, Len(activities)) = activities
           /\ IF a.scheduledAt # NoDate
              THEN a.recordedAt = NoDate /\ a.completionOutcome = NULL
              ELSE a.recordedAt # NoDate /\ a.completionOutcome # NULL
  /\ (resp'.op = "complete-activity" /\ resp'.code = 200) =>
       /\ activities'[resp'.key].recordedAt # NoDate
       /\ activities'[resp'.key].completionOutcome # NULL
  /\ resp'.op \in {"update-activity", "delete-activity"} =>
       /\ Len(activities') = Len(activities)
       /\ \A i \in 1..Len(activities) :
            /\ activities'[i].recordedAt = activities[i].recordedAt
            /\ activities'[i].completionOutcome = activities[i].completionOutcome

C27_OutcomeIffRecorded ==
  /\ [](\A i \in 1..Len(activities) : C27_Paired(activities[i]))
  /\ [][C27_Step]_vars

\* C27 witness: a scheduled activity completed, holding both fields.
C27_Witness ==
  /\ resp.op = "complete-activity" /\ resp.code = 200
  /\ activities[resp.key].scheduledAt # NoDate
  /\ activities[resp.key].recordedAt # NoDate
  /\ activities[resp.key].completionOutcome = "NO_SHOW"

\* C28: a successful complete changes only recordedAt and completionOutcome of the
\* activity addressed, to those of the request: its other fields keep their values
\* and no other activity, and no other table, changes.
C28_CompleteFrame ==
  [][(resp'.op = "complete-activity" /\ resp'.code = 200)
       => /\ Len(activities') = Len(activities)
          /\ \A i \in 1..Len(activities) :
               IF i = resp'.key
               THEN /\ activities'[i].userId = activities[i].userId
                    /\ activities'[i].scheduledAt = activities[i].scheduledAt
                    /\ activities'[i].title = activities[i].title
                    /\ activities'[i].notes = activities[i].notes
                    /\ activities'[i].activityType = activities[i].activityType
                    /\ activities'[i].deletedAt = activities[i].deletedAt
                    /\ activities'[i].deletedReason = activities[i].deletedReason
                    /\ activities'[i].recordedAt = resp'.extra.completionDate
                    /\ activities'[i].completionOutcome = resp'.extra.completionOutcome
               ELSE activities'[i] = activities[i]
          /\ UNCHANGED <<users, passwordHistory, emailTokens, refreshTokens>>]_vars

\* C28 witness: the second of two activities completed, still scheduled and retitled by
\* an update before, the first one soft-deleted before.
C28_Witness ==
  /\ resp.op = "complete-activity" /\ resp.code = 200 /\ resp.key = 2
  /\ activities[2].scheduledAt # NoDate /\ activities[2].title = "t2"
  /\ activities[2].recordedAt = resp.extra.completionDate
  /\ activities[1].deletedAt # NoDate /\ activities[1].recordedAt = NoDate

\* C29: with requests handled one after another and without the dev-only unblock, every
\* user created by signup has 0 <= failedLoginAttempts <= 10 and is BLOCKED exactly
\* when failedLoginAttempts = 10, in every reachable state; no step of a login, nor of
\* any other request, changes the counter of an account that is BLOCKED or in
\* WAITING_EMAIL_CONFIRMATION.
C29_SignedUp(e) ==
  \E i \in 1..Len(emailTokens) :
    emailTokens[i].userId = e /\ emailTokens[i].type = "CONFIRM_EMAIL"

C29_CounterAndStatus ==
  /\ [](\A e \in DOMAIN users :
          C29_SignedUp(e) =>
            /\ users[e].failedLoginAttempts >= 0
            /\ users[e].failedLoginAttempts <= 10
            /\ (users[e].status = "BLOCKED") <=> (users[e].failedLoginAttempts = 10))
  /\ [][\A e \in DOMAIN users :
          users[e].status \in {"BLOCKED", "WAITING_EMAIL_CONFIRMATION"}
            => users'[e].failedLoginAttempts = users[e].failedLoginAttempts]_vars

\* C29 witness: a login with the right password refused on an account that signed up
\* and was blocked at ten failures.
C29_Witness ==
  /\ resp.op = "login" /\ resp.error = E_BLOCKED
  /\ resp.arg = Pw(1)
  /\ C29_SignedUp(resp.key)
  /\ users[resp.key].status = "BLOCKED"
  /\ users[resp.key].failedLoginAttempts = 10

\* C30: in every list response stats.total = stats.open + stats.completed, and the
\* stats are those the same caller gets on the same store and date range with
\* includeDeleted=true and with includeDeleted=false.
C30_StatsFor(u, q, v) == ListStats(ListWhere(u, [q EXCEPT !.includeDeleted = v]))

====
